---- MODULE Spec2Model ----
(***************************************************************************)
(* Model of MrBanana's HLS download pipeline (mr_banana/utils/hls.py), of  *)
(* its metadata merge engine (mr_banana/scraper/merger.py) and of its      *)
(* download history (mr_banana/utils/history.py, api/manager.py).          *)
(*                                                                         *)
(* Spec       : one call of HLSDownloader.download with its segment        *)
(*              workers and the environment setting the cancel event.      *)
(* SpecMerge  : one call of merge_results on a bounded list of results.    *)
(* SpecSelect : the variant selection download() applies to a master       *)
(*              playlist.                                                  *)
(* SpecFair   : Spec with the calling thread of download() kept running.   *)
(* SpecArtwork: _derive_dmm_artwork applied to a cover URL and to its own  *)
(*              results.                                                   *)
(* SpecHistory: the downloads table under start, pause, resume, worker     *)
(*              updates and restarts of the process.                       *)
(***************************************************************************)
EXTENDS Integers, Sequences, FiniteSets, TLC

(***************************************************************************)
(* Bounds of the model.                                                    *)
(***************************************************************************)
MaxSegs == 3
MaxWorkers == 2
MaxSize == 2

(***************************************************************************)
(* Program constants.                                                      *)
(***************************************************************************)
MaxFetches == 2
RetryAttempts == 3

Segs == 1..MaxSegs

\* sentinel results of a future: DownloadCancelled raised / other exception
ResCancelled == 0 - 2
ResError == 0 - 1

\* ids of the entries of the temp directory other than the segment files
KeyEntry == 0
ManifestEntry == 0 - 1

VARIABLES
    pc,               \* position of the orchestrator inside download()
    cancel,           \* cancel_event.is_set()
    nseg,             \* len(playlist.segments) of the media playlist served
    maxw,             \* self.max_workers
    hasKey,           \* the media playlist declares a key with a URI
    fetchNo,          \* playlist fetches done so far
    dirExists,        \* os.path.exists(temp_dir)
    tempCreated,      \* download() went through os.makedirs(temp_dir)
    segFile,          \* size of seg_%05d.ts in temp_dir, -1 when absent
    keyFile,          \* key.key present in temp_dir
    manifestFile,     \* local.m3u8 present in temp_dir
    keyUri,           \* "none" | "remote" | "local": key.uri of the playlist
    playlistSegs,     \* playlist.segments[*].uri after the rewrite
    it,               \* segments consumed from iter(segments_to_download)
    seeded,           \* iterations done by the seed loop
    wstate,           \* per segment future: none/queued/running/fetched/done/cancelled
    wres,             \* result of the future (size, ResError, ResCancelled)
    pending,          \* the set `pending` of futures
    completed_count,
    total_bytes,
    failed_segments,  \* sequence of segment indices
    cancelled,        \* local flag `cancelled`
    drained,          \* segment indices in the order their futures were drained
    missing,          \* list `missing` of the retry pass (remaining part)
    attempt,          \* attempts done for head of missing
    manifest,         \* segment entries of the written local.m3u8
    manifestKey,      \* key URI written to local.m3u8
    pendingExc,       \* what the try block ended with, while finally runs
    outcome,          \* how download() ended
    rmSnapshot,       \* directory entries listed by shutil.rmtree
    logged,           \* the logger.error message download() ended with
    submitted,        \* segment indices in the order of executor.submit
    retried,          \* per segment: results of its retry-pass fetches
    results,          \* merge_results: the list of CrawlResults
    field_sources,    \* merge_results: the field_sources map
    merged,           \* merge_results: the record being built
    mpc,              \* merge_results: position inside the function
    focus,            \* the field the inputs of this merge populate
    preferred_resolution, \* download: the preference string
    candidates,       \* _select_variant_url: (uri, bandwidth, height)
    variant_url,      \* _select_variant_url: the returned uri
    spc,              \* position of the variant selection
    cover_url,        \* _derive_dmm_artwork: the URL given, [host, path, query]
    derived,          \* _derive_dmm_artwork(cover_url): (poster, fanart)
    derived_back,     \* _derive_dmm_artwork(derived.fanart)
    apc,              \* position of the artwork derivation
    tasks,            \* rows of the downloads table, by id
    up,               \* the process runs and holds a DownloadManager
    active_tasks,     \* DownloadManager.active_tasks: ids of the tasks in memory
    cancel_events,    \* DownloadManager._cancel_events: ids whose event is set
    wpos,             \* per task: position of its _download_worker thread
    marked,           \* what mark_incomplete_as_paused returned last
    reports,          \* download: the calls of progress_callback so far
    fetched           \* download: what each playlist fetch returned, in order

vars == <<pc, cancel, nseg, maxw, hasKey, fetchNo, dirExists, tempCreated,
          segFile, keyFile, manifestFile, keyUri, playlistSegs, it, seeded,
          wstate, wres, pending, completed_count, total_bytes,
          failed_segments, cancelled, drained, missing, attempt, manifest,
          manifestKey, pendingExc, outcome, rmSnapshot, logged, submitted,
          retried, reports, fetched,
          results, field_sources, merged, mpc, focus,
          preferred_resolution, candidates, variant_url, spc,
          cover_url, derived, derived_back, apc,
          tasks, up, active_tasks, cancel_events, wpos, marked>>

dlVars == <<pc, cancel, nseg, maxw, hasKey, fetchNo, dirExists, tempCreated,
            segFile, keyFile, manifestFile, keyUri, playlistSegs, it, seeded,
            wstate, wres, pending, completed_count, total_bytes,
            failed_segments, cancelled, drained, missing, attempt, manifest,
            manifestKey, pendingExc, outcome, rmSnapshot, logged,
            submitted, retried, reports, fetched>>
mergeVars == <<results, field_sources, merged, mpc, focus>>
selectVars == <<preferred_resolution, candidates, variant_url, spc>>
artVars == <<cover_url, derived, derived_back, apc>>
histVars == <<tasks, up, active_tasks, cancel_events, wpos, marked>>
pureVars == <<mergeVars, selectVars, artVars, histVars>>

fsVars == <<dirExists, tempCreated, segFile, keyFile, manifestFile>>
inputVars == <<nseg, maxw, hasKey>>
workerVars == <<wstate, wres>>
schedVars == <<it, seeded, pending, completed_count, total_bytes,
               failed_segments, cancelled, drained, submitted>>
retryVars == <<missing, attempt, retried>>
manifestVars == <<manifest, manifestKey>>

\* f"seg_{i:05d}.ts": the local file name of sequence index i (1-based here)
SegFileName(i) == i

\* entries currently present in temp_dir
TempEntries ==
    {i \in Segs : segFile[i] >= 0}
        \cup (IF keyFile THEN {KeyEntry} ELSE {})
        \cup (IF manifestFile THEN {ManifestEntry} ELSE {})

\* no merge in progress
MergeIdle ==
    /\ results = <<>>
    /\ field_sources = <<>>
    /\ merged = <<>>
    /\ mpc = "idle"
    /\ focus = "none"

\* no variant selection in progress
SelectIdle ==
    /\ preferred_resolution = <<>>
    /\ candidates = <<>>
    /\ variant_url = 0
    /\ spc = "idle"

\* no artwork derivation in progress
ArtIdle ==
    /\ cover_url = <<>>
    /\ derived = <<>>
    /\ derived_back = <<>>
    /\ apc = "idle"

\* no download manager
HistIdle ==
    /\ tasks = <<>>
    /\ up = FALSE
    /\ active_tasks = {}
    /\ cancel_events = {}
    /\ wpos = <<>>
    /\ marked = 0

\* no download in progress: the locals of download() at their first values
DownloadLocals ==
    /\ fetchNo = 0
    /\ tempCreated = FALSE
    /\ segFile = [i \in Segs |-> 0 - 1]
    /\ keyFile = FALSE
    /\ manifestFile = FALSE
    /\ keyUri = "none"
    /\ playlistSegs = <<>>
    /\ it = 0
    /\ seeded = 0
    /\ wstate = [i \in Segs |-> "none"]
    /\ wres = [i \in Segs |-> 0]
    /\ pending = {}
    /\ completed_count = 0
    /\ total_bytes = 0
    /\ failed_segments = <<>>
    /\ cancelled = FALSE
    /\ drained = <<>>
    /\ missing = <<>>
    /\ attempt = 0
    /\ manifest = <<>>
    /\ manifestKey = "none"
    /\ pendingExc = "none"
    /\ outcome = "none"
    /\ rmSnapshot = {}
    /\ logged = "none"
    /\ submitted = <<>>
    /\ retried = [i \in Segs |-> <<>>]
    /\ reports = <<>>
    /\ fetched = <<>>

Init ==
    /\ pc = "start"
    /\ cancel \in BOOLEAN
    /\ nseg \in 1..MaxSegs
    /\ maxw \in 1..MaxWorkers
    /\ hasKey \in BOOLEAN
    /\ dirExists \in BOOLEAN
    /\ DownloadLocals
    /\ MergeIdle
    /\ SelectIdle
    /\ ArtIdle
    /\ HistIdle

\* hls.py 252, 286: progress_callback(current, total, speed_str, total_bytes)
Report(current, total, bytes) ==
    [current |-> current, total |-> total, total_bytes |-> bytes]

(***************************************************************************)
(* Environment: another thread sets the cancel event while download runs.  *)
(***************************************************************************)
SetCancel ==
    /\ pc # "done"
    /\ ~cancel
    /\ cancel' = TRUE
    /\ UNCHANGED <<pureVars, fetched, reports, logged, pc, inputVars, fetchNo, fsVars, keyUri, playlistSegs,
                   workerVars, schedVars, retryVars, manifestVars,
                   pendingExc, outcome, rmSnapshot>>

\* download() ends before the try block (no finally clause runs)
EndEarly(how) ==
    /\ pc' = "done"
    /\ outcome' = how

\* the try block ends with `how`; the finally clause of line 300 runs next
EnterCleanup(how) ==
    /\ pc' = "cleanup"
    /\ pendingExc' = how

\* hls.py 46-47
Start ==
    /\ pc = "start"
    /\ IF cancel THEN EndEarly("cancelled")
                 ELSE pc' = "fetch" /\ outcome' = outcome
    /\ UNCHANGED <<pureVars, fetched, reports, logged, cancel, inputVars, fetchNo, fsVars, keyUri, playlistSegs,
                   workerVars, schedVars, retryVars, manifestVars,
                   pendingExc, rmSnapshot>>

\* a playlist loop that follows one more level of master playlists
FetchPlaylistAgain ==
    /\ pc = "fetch"
    /\ \E kind \in {"nothing", "media", "master", "master_no_variant"} :
        /\ fetchNo' = fetchNo + 1
        /\ fetched' = Append(fetched, kind)
        /\ IF kind = "nothing"
           THEN EndEarly("false") /\ logged' = "fetch_failed"
           ELSE IF cancel THEN EndEarly("cancelled") /\ logged' = logged
           ELSE IF kind = "media"
           THEN pc' = "mktemp" /\ UNCHANGED <<outcome, logged>>
           ELSE IF kind = "master" /\ fetchNo + 1 < MaxFetches + 1
           THEN pc' = "fetch" /\ UNCHANGED <<outcome, logged>>
           ELSE EndEarly("false") /\ logged' = "no_segments"
    /\ UNCHANGED <<pureVars, reports, cancel, inputVars, fsVars, keyUri, playlistSegs,
                   workerVars, schedVars, retryVars, manifestVars,
                   pendingExc, rmSnapshot>>

\* hls.py 113-136: one iteration of the playlist loop; kind is what the
\* server returns for m3u8_url
FetchPlaylist ==
    /\ pc = "fetch"
    /\ \E kind \in {"nothing", "media", "master", "master_no_variant"} :
        /\ fetchNo' = fetchNo + 1
        /\ fetched' = Append(fetched, kind)
        /\ IF kind = "nothing"
           THEN EndEarly("false") /\ logged' = "fetch_failed"
           ELSE IF cancel THEN EndEarly("cancelled") /\ logged' = logged
           ELSE IF kind = "media"
           THEN pc' = "mktemp" /\ UNCHANGED <<outcome, logged>>
           ELSE IF kind = "master" /\ fetchNo + 1 < MaxFetches
           THEN pc' = "fetch" /\ UNCHANGED <<outcome, logged>>
           ELSE EndEarly("false") /\ logged' = "no_segments"
    /\ UNCHANGED <<pureVars, reports, cancel, inputVars, fsVars, keyUri, playlistSegs,
                   workerVars, schedVars, retryVars, manifestVars,
                   pendingExc, rmSnapshot>>

\* hls.py 141-144
MakeTempDir ==
    /\ pc = "mktemp"
    /\ dirExists' = TRUE
    /\ tempCreated' = TRUE
    /\ segFile' = [i \in Segs |-> 0 - 1]
    /\ keyFile' = FALSE
    /\ manifestFile' = FALSE
    /\ pc' = "key"
    /\ UNCHANGED <<pureVars, fetched, reports, logged, cancel, inputVars, fetchNo, keyUri, playlistSegs,
                   workerVars, schedVars, retryVars, manifestVars,
                   pendingExc, outcome, rmSnapshot>>

\* hls.py 150-160
FetchKey ==
    /\ pc = "key"
    /\ IF hasKey
       THEN \E got \in BOOLEAN :
               /\ keyFile' = got
               /\ keyUri' = IF got THEN "local" ELSE "remote"
       ELSE keyFile' = keyFile /\ keyUri' = keyUri
    /\ pc' = "prepare"
    /\ UNCHANGED <<pureVars, fetched, reports, logged, cancel, inputVars, fetchNo, dirExists, tempCreated,
                   segFile, manifestFile, playlistSegs, workerVars,
                   schedVars, retryVars, manifestVars, pendingExc, outcome,
                   rmSnapshot>>

\* hls.py 163-186
PrepareSegments ==
    /\ pc = "prepare"
    /\ playlistSegs' = [i \in 1..nseg |-> SegFileName(i)]
    /\ pc' = "seed"
    /\ UNCHANGED <<pureVars, fetched, reports, logged, cancel, inputVars, fetchNo, fsVars, keyUri, workerVars,
                   schedVars, retryVars, manifestVars, pendingExc, outcome,
                   rmSnapshot>>


(***************************************************************************)
(* Segment workers: HLSDownloader._download_segment run by the executor.   *)
(***************************************************************************)
Running == {i \in Segs : wstate[i] \in {"running", "fetched"}}

\* hls.py 305-308: a pool thread picks the queued future up
WorkerStart(i) ==
    /\ wstate[i] = "queued"
    /\ Cardinality(Running) < maxw
    /\ IF cancel
       THEN /\ wstate' = [wstate EXCEPT ![i] = "done"]
            /\ wres' = [wres EXCEPT ![i] = ResCancelled]
       ELSE /\ wstate' = [wstate EXCEPT ![i] = "running"]
            /\ wres' = wres
    /\ UNCHANGED <<pureVars, fetched, reports, logged, pc, cancel, inputVars, fetchNo, fsVars, keyUri,
                   playlistSegs, schedVars, retryVars, manifestVars,
                   pendingExc, outcome, rmSnapshot>>

\* hls.py 309-310, 314: network.download_file returns content or None
WorkerFetch(i) ==
    /\ wstate[i] = "running"
    /\ \E s \in 0..MaxSize :
        /\ wstate' = [wstate EXCEPT ![i] = IF s > 0 THEN "fetched" ELSE "done"]
        /\ wres' = [wres EXCEPT ![i] = s]
    /\ UNCHANGED <<pureVars, fetched, reports, logged, pc, cancel, inputVars, fetchNo, fsVars, keyUri,
                   playlistSegs, schedVars, retryVars, manifestVars,
                   pendingExc, outcome, rmSnapshot>>

\* hls.py 311-313: open(path, "wb") fails when temp_dir is gone
WorkerWrite(i) ==
    /\ wstate[i] = "fetched"
    /\ wstate' = [wstate EXCEPT ![i] = "done"]
    /\ IF dirExists
       THEN /\ segFile' = [segFile EXCEPT ![i] = wres[i]]
            /\ wres' = wres
       ELSE /\ segFile' = segFile
            /\ wres' = [wres EXCEPT ![i] = ResError]
    /\ UNCHANGED <<pureVars, fetched, reports, logged, pc, cancel, inputVars, fetchNo, dirExists, tempCreated,
                   keyFile, manifestFile, keyUri, playlistSegs, schedVars,
                   retryVars, manifestVars, pendingExc, outcome, rmSnapshot>>

(***************************************************************************)
(* The scheduler pass of download(): hls.py 178-254.                       *)
(***************************************************************************)
\* hls.py 209-210 / 239-240: fut.cancel() only stops futures not yet started
CancelFutures(S) ==
    [i \in Segs |-> IF i \in S /\ wstate[i] = "queued" THEN "cancelled"
                    ELSE wstate[i]]

\* hls.py 188-196 submit_next, when the iterator is not exhausted
SubmitNext ==
    /\ it' = it + 1
    /\ pending' = pending \cup {it + 1}
    /\ wstate' = [wstate EXCEPT ![it + 1] = "queued"]
    /\ submitted' = Append(submitted, it + 1)

\* the seed loop running one iteration too many
SeedOneTooMany ==
    /\ pc = "seed"
    /\ seeded < maxw + 1
    /\ IF cancel
       THEN /\ cancelled' = TRUE
            /\ pc' = "shutdown"
            /\ pendingExc' = "cancelled"
            /\ UNCHANGED <<it, pending, wstate, seeded, submitted>>
       ELSE IF it < nseg
       THEN /\ SubmitNext
            /\ seeded' = seeded + 1
            /\ pc' = IF seeded + 1 < maxw + 1 THEN "seed" ELSE "drain"
            /\ UNCHANGED <<cancelled, pendingExc>>
       ELSE /\ pc' = "drain"
            /\ UNCHANGED <<it, pending, wstate, seeded, submitted, cancelled,
                           pendingExc>>
    /\ UNCHANGED <<pureVars, fetched, reports, logged, cancel, inputVars, fetchNo, fsVars, keyUri, playlistSegs,
                   wres, completed_count, total_bytes, failed_segments,
                   drained, retryVars, manifestVars, outcome, rmSnapshot>>

\* hls.py 199-204: one iteration of the seed loop
Seed ==
    /\ pc = "seed"
    /\ seeded < maxw
    /\ IF cancel
       THEN /\ cancelled' = TRUE
            /\ pc' = "shutdown"
            /\ pendingExc' = "cancelled"
            /\ UNCHANGED <<it, pending, wstate, seeded, submitted>>
       ELSE IF it < nseg
       THEN /\ SubmitNext
            /\ seeded' = seeded + 1
            /\ pc' = IF seeded + 1 < maxw THEN "seed" ELSE "drain"
            /\ UNCHANGED <<cancelled, pendingExc>>
       ELSE /\ pc' = "drain"
            /\ UNCHANGED <<it, pending, wstate, seeded, submitted, cancelled,
                           pendingExc>>
    /\ UNCHANGED <<pureVars, fetched, reports, logged, cancel, inputVars, fetchNo, fsVars, keyUri, playlistSegs,
                   wres, completed_count, total_bytes, failed_segments,
                   drained, retryVars, manifestVars, outcome, rmSnapshot>>

\* hls.py 206-211: loop condition and the cancel check at the top
DrainTop ==
    /\ pc = "drain"
    /\ IF pending = {}
       THEN /\ pc' = "shutdown"
            /\ UNCHANGED <<cancelled, wstate, pendingExc>>
       ELSE IF cancel
       THEN /\ cancelled' = TRUE
            /\ wstate' = CancelFutures(pending)
            /\ pc' = "shutdown"
            /\ pendingExc' = "cancelled"
       ELSE /\ pc' = "wait"
            /\ UNCHANGED <<cancelled, wstate, pendingExc>>
    /\ UNCHANGED <<pureVars, fetched, reports, logged, cancel, inputVars, fetchNo, fsVars, keyUri, playlistSegs,
                   wres, it, seeded, pending, completed_count, total_bytes,
                   failed_segments, drained, submitted, retryVars,
                   manifestVars, outcome, rmSnapshot>>

\* hls.py 214-217: as_completed(pending, timeout=0.2) times out
DrainTimeout ==
    /\ pc = "wait"
    /\ \A f \in pending : wstate[f] # "done"
    /\ pc' = "drain"
    /\ UNCHANGED <<pureVars, fetched, reports, logged, cancel, inputVars, fetchNo, fsVars, keyUri, playlistSegs,
                   workerVars, schedVars, retryVars, manifestVars,
                   pendingExc, outcome, rmSnapshot>>

\* a drain step that forgets the results without content
DrainOneDropsFailure ==
    /\ pc = "wait"
    /\ \E f \in pending :
        /\ wstate[f] = "done"
        /\ pending' = pending \ {f}
        /\ drained' = Append(drained, f)
        /\ IF wres[f] = ResCancelled
           THEN /\ cancelled' = TRUE
                /\ pc' = "shutdown"
                /\ pendingExc' = "cancelled"
                /\ UNCHANGED <<completed_count, total_bytes, failed_segments>>
           ELSE IF wres[f] > 0
           THEN /\ total_bytes' = total_bytes + wres[f]
                /\ completed_count' = completed_count + 1
                /\ pc' = "refill"
                /\ UNCHANGED <<cancelled, pendingExc, failed_segments>>
           ELSE /\ pc' = "refill"
                /\ UNCHANGED <<cancelled, pendingExc, completed_count,
                               total_bytes, failed_segments>>
    /\ UNCHANGED <<pureVars, fetched, reports, logged, cancel, inputVars, fetchNo, fsVars, keyUri, playlistSegs,
                   workerVars, it, seeded, submitted, retryVars, manifestVars,
                   outcome, rmSnapshot>>

\* hls.py 215-234: drain one finished future and classify its result
DrainOne ==
    /\ pc = "wait"
    /\ \E f \in pending :
        /\ wstate[f] = "done"
        /\ pending' = pending \ {f}
        /\ drained' = Append(drained, f)
        /\ IF wres[f] = ResCancelled
           THEN /\ cancelled' = TRUE
                /\ pc' = "shutdown"
                /\ pendingExc' = "cancelled"
                /\ UNCHANGED <<completed_count, total_bytes, failed_segments>>
           ELSE IF wres[f] > 0
           THEN /\ total_bytes' = total_bytes + wres[f]
                /\ completed_count' = completed_count + 1
                /\ pc' = "refill"
                /\ UNCHANGED <<cancelled, pendingExc, failed_segments>>
           ELSE /\ failed_segments' = Append(failed_segments, f)
                /\ pc' = "refill"
                /\ UNCHANGED <<cancelled, pendingExc, completed_count,
                               total_bytes>>
    /\ UNCHANGED <<pureVars, fetched, reports, logged, cancel, inputVars, fetchNo, fsVars, keyUri, playlistSegs,
                   workerVars, it, seeded, submitted, retryVars, manifestVars,
                   outcome, rmSnapshot>>

\* a drain loop that never submits a replacement
DrainRefillIdle ==
    /\ pc = "refill"
    /\ IF cancel
       THEN /\ cancelled' = TRUE
            /\ wstate' = CancelFutures(pending)
            /\ pc' = "shutdown"
            /\ pendingExc' = "cancelled"
       ELSE /\ pc' = "drain"
            /\ UNCHANGED <<wstate, cancelled, pendingExc>>
    /\ UNCHANGED <<pureVars, fetched, reports, logged, cancel, inputVars, fetchNo, fsVars, keyUri, playlistSegs,
                   wres, it, pending, submitted, seeded, completed_count,
                   total_bytes, failed_segments, drained, retryVars,
                   manifestVars, outcome, rmSnapshot>>

\* hls.py 237-252: cancel check, replacement submission, progress report
DrainRefill ==
    /\ pc = "refill"
    /\ IF cancel
       THEN /\ cancelled' = TRUE
            /\ wstate' = CancelFutures(pending)
            /\ pc' = "shutdown"
            /\ pendingExc' = "cancelled"
            /\ UNCHANGED <<it, pending, submitted, reports>>
       ELSE /\ IF it < nseg THEN SubmitNext
                            ELSE UNCHANGED <<it, pending, wstate, submitted>>
            /\ reports' = Append(reports, Report(completed_count, nseg,
                                                 total_bytes))
            /\ pc' = "drain"
            /\ UNCHANGED <<cancelled, pendingExc>>
    /\ UNCHANGED <<pureVars, fetched, logged, cancel, inputVars, fetchNo, fsVars, keyUri, playlistSegs,
                   wres, seeded, completed_count, total_bytes,
                   failed_segments, drained, retryVars, manifestVars,
                   outcome, rmSnapshot>>

\* a pass that swallows DownloadCancelled and returns normally
ShutdownSwallows ==
    /\ pc = "shutdown"
    /\ IF cancelled
       THEN wstate' = CancelFutures(Segs)
       ELSE /\ \A i \in Segs : wstate[i] \in {"none", "done", "cancelled"}
            /\ wstate' = wstate
    /\ pc' = "postcheck"
    /\ UNCHANGED <<pureVars, fetched, reports, logged, cancel, inputVars, fetchNo, fsVars, keyUri, playlistSegs,
                   wres, schedVars, retryVars, manifestVars, pendingExc,
                   outcome, rmSnapshot>>

\* hls.py 253-254: executor.shutdown(wait=not cancelled,
\* cancel_futures=cancelled), then the exception (if any) goes on
Shutdown ==
    /\ pc = "shutdown"
    /\ IF cancelled
       THEN wstate' = CancelFutures(Segs)
       ELSE /\ \A i \in Segs : wstate[i] \in {"none", "done", "cancelled"}
            /\ wstate' = wstate
    /\ pc' = IF pendingExc = "cancelled" THEN "cleanup" ELSE "postcheck"
    /\ UNCHANGED <<pureVars, fetched, reports, logged, cancel, inputVars, fetchNo, fsVars, keyUri, playlistSegs,
                   wres, schedVars, retryVars, manifestVars, pendingExc,
                   outcome, rmSnapshot>>


(***************************************************************************)
(* After the scheduler pass: retry, manifest, remux, cleanup.              *)
(***************************************************************************)
RECURSIVE MissingFrom(_)
\* hls.py 264-268: segments whose local file is missing or empty, in order
MissingFrom(i) ==
    IF i > nseg THEN <<>>
    ELSE IF segFile[i] <= 0 THEN <<i>> \o MissingFrom(i + 1)
    ELSE MissingFrom(i + 1)

\* hls.py 257-268
PostCheck ==
    /\ pc = "postcheck"
    /\ IF cancel
       THEN EnterCleanup("cancelled") /\ missing' = missing
       ELSE IF failed_segments # <<>>
       THEN /\ missing' = MissingFrom(1)
            /\ pc' = "retry"
            /\ pendingExc' = pendingExc
       ELSE /\ pc' = "manifest"
            /\ UNCHANGED <<missing, pendingExc>>
    /\ UNCHANGED <<pureVars, fetched, reports, logged, cancel, inputVars, fetchNo, fsVars, keyUri, playlistSegs,
                   workerVars, schedVars, attempt, retried, manifestVars,
                   outcome, rmSnapshot>>

\* hls.py 270-272: next element of `missing`, cancel check before it
RetryNext ==
    /\ pc = "retry"
    /\ IF missing = <<>>
       THEN pc' = "manifest" /\ UNCHANGED <<attempt, pendingExc>>
       ELSE IF cancel
       THEN EnterCleanup("cancelled") /\ attempt' = attempt
       ELSE pc' = "attempt" /\ attempt' = 0 /\ pendingExc' = pendingExc
    /\ UNCHANGED <<pureVars, fetched, reports, logged, cancel, inputVars, fetchNo, fsVars, keyUri, playlistSegs,
                   workerVars, schedVars, missing, retried, manifestVars,
                   outcome, rmSnapshot>>

\* a retry loop that goes on after a successful fetch
RetryAttemptNoBreak ==
    /\ pc = "attempt"
    /\ IF cancel
       THEN /\ EnterCleanup("cancelled")
            /\ UNCHANGED <<segFile, missing, attempt, retried>>
       ELSE \E s \in 0..MaxSize :
            /\ pendingExc' = pendingExc
            /\ retried' = [retried EXCEPT
                               ![Head(missing)] = Append(retried[Head(missing)], s)]
            /\ segFile' = IF s > 0 THEN [segFile EXCEPT ![Head(missing)] = s]
                          ELSE segFile
            /\ attempt' = attempt + 1
            /\ IF attempt + 1 < RetryAttempts
               THEN pc' = "attempt" /\ missing' = missing
               ELSE pc' = "retry" /\ missing' = Tail(missing)
    /\ UNCHANGED <<pureVars, fetched, reports, logged, cancel, inputVars, fetchNo, dirExists, tempCreated,
                   keyFile, manifestFile, keyUri, playlistSegs, workerVars,
                   schedVars, manifestVars, outcome, rmSnapshot>>

\* hls.py 273-276 with _download_segment (305-314) called inline
RetryAttempt ==
    /\ pc = "attempt"
    /\ IF cancel
       THEN /\ EnterCleanup("cancelled")
            /\ UNCHANGED <<segFile, missing, attempt, retried>>
       ELSE \E s \in 0..MaxSize :
            /\ pendingExc' = pendingExc
            /\ retried' = [retried EXCEPT
                               ![Head(missing)] = Append(retried[Head(missing)], s)]
            /\ IF s > 0
               THEN /\ segFile' = [segFile EXCEPT ![Head(missing)] = s]
                    /\ missing' = Tail(missing)
                    /\ attempt' = attempt
                    /\ pc' = "retry"
               ELSE /\ segFile' = segFile
                    /\ attempt' = attempt + 1
                    /\ IF attempt + 1 < RetryAttempts
                       THEN pc' = "attempt" /\ missing' = missing
                       ELSE pc' = "retry" /\ missing' = Tail(missing)
    /\ UNCHANGED <<pureVars, fetched, reports, logged, cancel, inputVars, fetchNo, dirExists, tempCreated,
                   keyFile, manifestFile, keyUri, playlistSegs, workerVars,
                   schedVars, manifestVars, outcome, rmSnapshot>>

\* the manifest built from the order in which the fetches completed
DumpsCompletionOrder == [k \in 1..Len(drained) |-> SegFileName(drained[k])]

\* playlist.dumps(): the segment entries of the playlist model, in its order
Dumps == playlistSegs

\* hls.py 279-281
WriteManifest ==
    /\ pc = "manifest"
    /\ manifest' = Dumps
    /\ manifestKey' = keyUri
    /\ manifestFile' = TRUE
    /\ pc' = "premerge"
    /\ UNCHANGED <<pureVars, fetched, reports, logged, cancel, inputVars, fetchNo, dirExists, tempCreated,
                   segFile, keyFile, keyUri, playlistSegs, workerVars,
                   schedVars, retryVars, pendingExc, outcome, rmSnapshot>>

\* a last progress report that starts again from zero
PreMergeResets ==
    /\ pc = "premerge"
    /\ reports' = Append(reports, Report(0, nseg, 0))
    /\ IF cancel THEN EnterCleanup("cancelled")
                 ELSE pc' = "ffmpeg" /\ pendingExc' = pendingExc
    /\ UNCHANGED <<pureVars, fetched, logged, cancel, inputVars, fetchNo, fsVars, keyUri, playlistSegs,
                   workerVars, schedVars, retryVars, manifestVars, outcome,
                   rmSnapshot>>

\* hls.py 284-289: the "Merging..." progress report, then the cancel check
PreMerge ==
    /\ pc = "premerge"
    /\ reports' = Append(reports, Report(nseg, nseg, total_bytes))
    /\ IF cancel THEN EnterCleanup("cancelled")
                 ELSE pc' = "ffmpeg" /\ pendingExc' = pendingExc
    /\ UNCHANGED <<pureVars, fetched, logged, cancel, inputVars, fetchNo, fsVars, keyUri, playlistSegs,
                   workerVars, schedVars, retryVars, manifestVars, outcome,
                   rmSnapshot>>

\* hls.py 291-299 with the handler of line 297 logging and re-raising
FfmpegRaises ==
    /\ pc = "ffmpeg"
    /\ \E ok \in BOOLEAN :
        IF ok THEN EnterCleanup("true") /\ logged' = logged
              ELSE EnterCleanup("error") /\ logged' = "hls_failed"
    /\ UNCHANGED <<pureVars, fetched, reports, cancel, inputVars, fetchNo, fsVars, keyUri, playlistSegs,
                   workerVars, schedVars, retryVars, manifestVars, outcome,
                   rmSnapshot>>

\* hls.py 291-299 with _merge_with_ffmpeg (316-328): a non-zero exit raises
\* CalledProcessError, which `except Exception` turns into return False
Ffmpeg ==
    /\ pc = "ffmpeg"
    /\ \E ok \in BOOLEAN :
        IF ok THEN EnterCleanup("true") /\ logged' = logged
              ELSE EnterCleanup("false") /\ logged' = "hls_failed"
    /\ UNCHANGED <<pureVars, fetched, reports, cancel, inputVars, fetchNo, fsVars, keyUri, playlistSegs,
                   workerVars, schedVars, retryVars, manifestVars, outcome,
                   rmSnapshot>>

\* hls.py 300-303: finally; shutil.rmtree first lists the directory
Cleanup ==
    /\ pc = "cleanup"
    /\ IF dirExists
       THEN /\ rmSnapshot' = TempEntries
            /\ pc' = "rm_unlink"
            /\ outcome' = outcome
       ELSE /\ rmSnapshot' = rmSnapshot
            /\ EndEarly(pendingExc)
    /\ UNCHANGED <<pureVars, fetched, reports, logged, cancel, inputVars, fetchNo, fsVars, keyUri, playlistSegs,
                   workerVars, schedVars, retryVars, manifestVars,
                   pendingExc>>

\* shutil.rmtree: unlink every listed entry
RmUnlink ==
    /\ pc = "rm_unlink"
    /\ segFile' = [i \in Segs |-> IF i \in rmSnapshot THEN 0 - 1 ELSE segFile[i]]
    /\ keyFile' = (keyFile /\ KeyEntry \notin rmSnapshot)
    /\ manifestFile' = (manifestFile /\ ManifestEntry \notin rmSnapshot)
    /\ pc' = "rm_rmdir"
    /\ UNCHANGED <<pureVars, fetched, reports, logged, cancel, inputVars, fetchNo, dirExists, tempCreated, keyUri,
                   playlistSegs, workerVars, schedVars, retryVars,
                   manifestVars, pendingExc, outcome, rmSnapshot>>

\* shutil.rmtree: os.rmdir raises OSError when an entry appeared meanwhile;
\* the OSError leaves the finally clause in place of the pending outcome
RmRmdir ==
    /\ pc = "rm_rmdir"
    /\ IF TempEntries = {}
       THEN dirExists' = FALSE /\ EndEarly(pendingExc)
       ELSE dirExists' = dirExists /\ EndEarly("oserror")
    /\ UNCHANGED <<pureVars, fetched, reports, logged, cancel, inputVars, fetchNo, tempCreated, segFile, keyFile,
                   manifestFile, keyUri, playlistSegs, workerVars, schedVars,
                   retryVars, manifestVars, pendingExc, rmSnapshot>>

Next ==
    \/ SetCancel
    \/ Start
    \/ FetchPlaylist
    \/ MakeTempDir
    \/ FetchKey
    \/ PrepareSegments
    \/ Seed
    \/ DrainTop
    \/ DrainTimeout
    \/ DrainOne
    \/ DrainRefill
    \/ Shutdown
    \/ PostCheck
    \/ RetryNext
    \/ RetryAttempt
    \/ WriteManifest
    \/ PreMerge
    \/ Ffmpeg
    \/ Cleanup
    \/ RmUnlink
    \/ RmRmdir
    \/ \E i \in Segs : WorkerStart(i)
    \/ \E i \in Segs : WorkerFetch(i)
    \/ \E i \in Segs : WorkerWrite(i)

Spec == Init /\ [][Next]_vars

\* the steps of the thread that called download(); the pool threads and the
\* thread that sets the cancel event are the rest of Next
Orchestrator ==
    \/ Start
    \/ FetchPlaylist
    \/ MakeTempDir
    \/ FetchKey
    \/ PrepareSegments
    \/ Seed
    \/ DrainTop
    \/ DrainTimeout
    \/ DrainOne
    \/ DrainRefill
    \/ Shutdown
    \/ PostCheck
    \/ RetryNext
    \/ RetryAttempt
    \/ WriteManifest
    \/ PreMerge
    \/ Ffmpeg
    \/ Cleanup
    \/ RmUnlink
    \/ RmRmdir

\* the calling thread keeps running (as_completed returns after 0.2 s at the
\* latest, hls.py 215); nothing is assumed of the segment fetches, which may
\* never return, nor of the cancel event
SpecFair == Spec /\ WF_vars(Orchestrator)

TypeOK ==
    /\ pending \subseteq 1..nseg
    /\ it \in 0..nseg
    /\ outcome \in {"none", "true", "false", "cancelled", "oserror"}


(***************************************************************************)
(* Properties of the download pipeline.                                    *)
(***************************************************************************)

\* C1: during the scheduler pass the number of segment fetches submitted and
\* not yet drained by the orchestrator never exceeds max_workers.
BoundedInFlight == Cardinality(pending) <= maxw

\* the window is full after a replacement submission, with several workers
BoundedInFlightWitness ==
    /\ pc = "drain"
    /\ maxw >= 2
    /\ it > maxw
    /\ Cardinality(pending) = maxw

\* C2: once the cancel signal was set during the call, download ends by
\* raising DownloadCancelled and the temp directory it created is gone.
CancelAlwaysCancelled ==
    (pc = "done" /\ cancel) =>
        (outcome = "cancelled" /\ (tempCreated => ~dirExists))

\* C3: whatever the outcome, once download has returned or raised after
\* creating the temp directory, that directory does not exist.
TempDirRemoved == (pc = "done" /\ tempCreated) => ~dirExists

\* C4: the written local manifest lists the segments in playlist order, its
\* i-th entry being the local file of sequence index i.
ManifestInSequenceOrder ==
    manifestFile =>
        /\ Len(manifest) = nseg
        /\ \A k \in 1..nseg : manifest[k] = SegFileName(k)

\* a manifest written after the fetches completed out of sequence order
ManifestInSequenceOrderWitness ==
    /\ manifestFile
    /\ Len(drained) = nseg
    /\ \E k \in 1..(nseg - 1) : drained[k] > drained[k + 1]

\* the segments whose three retry-pass fetches all came back empty
Exhausted ==
    {i \in 1..nseg : /\ Len(retried[i]) = RetryAttempts
                     /\ retried[i][RetryAttempts] = 0}

\* download ended on one of the terminal errors: no segments after the
\* master-to-media hop, a non-zero remux exit, or segments still failing
\* after the retry pass
TerminalError ==
    logged \in {"no_segments", "hls_failed"} \/ Exhausted # {}

ExhaustedNeverSucceeds ==
    (pc = "done" /\ Exhausted # {}) => outcome # "true"

\* the smaller of two numbers
Min(a, b) == IF a < b THEN a ELSE b

\* C17: in a scheduler pass during which the cancel signal is never set the
\* segments are submitted in sequence order, each exactly once:
\* min(max_workers, N) are seeded, every drained completion is followed by
\* one more submission while unsubmitted segments remain, and the pass ends
\* with all N submitted.
SlidingWindowSubmission ==
    /\ submitted = [k \in 1..it |-> k]
    /\ ~cancel =>
        /\ pc = "seed" => it = seeded /\ drained = <<>>
        /\ pc \in {"drain", "wait"} =>
              /\ seeded = Min(maxw, nseg)
              /\ it = Min(nseg, seeded + Len(drained))
        /\ pc = "refill" =>
              /\ seeded = Min(maxw, nseg)
              /\ it = Min(nseg, seeded + Len(drained) - 1)
        /\ pc \in {"shutdown", "postcheck"} =>
              /\ seeded = Min(maxw, nseg)
              /\ submitted = [k \in 1..nseg |-> k]
              /\ Len(drained) = nseg

\* a pass without cancellation that refilled the window more than once and
\* drained the completions out of sequence order
SlidingWindowSubmissionWitness ==
    /\ pc = "postcheck"
    /\ ~cancel
    /\ nseg = MaxSegs
    /\ maxw = 2
    /\ seeded = 2
    /\ submitted = <<1, 2, 3>>
    /\ drained[1] = 2

\* C18: from the moment the orchestrator of the scheduler pass has observed
\* the cancel signal it submits no further segment fetch, and it leaves the
\* pass with DownloadCancelled raised: the code after the pass never runs.
CancelObservedEndsPass ==
    [][cancelled' =>
          /\ submitted' = submitted
          /\ pendingExc' = "cancelled"
          /\ pc' \in {"shutdown", "cleanup", "rm_unlink", "rm_rmdir", "done"}
          /\ pc' = "done" => outcome' \in {"cancelled", "oserror"}]_vars

\* cancel was observed after a completion was drained, with segments still
\* unsubmitted, and the pass has been left
CancelObservedEndsPassWitness ==
    /\ cancelled
    /\ pc = "cleanup"
    /\ Len(drained) >= 1
    /\ it < nseg
    /\ pending # {}

\* C19: when the cancel signal is set while the orchestrator is in the drain
\* loop, download eventually ends by raising DownloadCancelled, whether or
\* not the in-flight fetches ever complete.
CancelWhileWaitingRaises ==
    (cancel /\ pc \in {"drain", "wait"}) ~>
        (pc = "done" /\ outcome = "cancelled")

RECURSIVE BytesOfFirst(_)
\* the content sizes of the first k drained results, added up
BytesOfFirst(k) ==
    IF k = 0 THEN 0
    ELSE BytesOfFirst(k - 1)
           + (IF wres[drained[k]] > 0 THEN wres[drained[k]] ELSE 0)

\* C21: as long as the scheduler pass has not been aborted by a cancellation,
\* every drained fetch result is counted once, as completed when its size is
\* positive and as failed otherwise; total_bytes is the sum of the positive
\* sizes; a segment recorded as failed is not pending and was submitted once.
ResultsClassifiedOnce ==
    ~cancelled =>
        /\ completed_count + Len(failed_segments) = Len(drained)
        /\ completed_count =
              Cardinality({k \in 1..Len(drained) : wres[drained[k]] > 0})
        /\ \A k \in 1..Len(drained) :
              wres[drained[k]] <= 0 <=>
                  \E j \in 1..Len(failed_segments) :
                      failed_segments[j] = drained[k]
        /\ \A j, k \in 1..Len(drained) : drained[j] = drained[k] => j = k
        /\ total_bytes = BytesOfFirst(Len(drained))
        /\ \A j \in 1..Len(failed_segments) :
              /\ failed_segments[j] \notin pending
              /\ Cardinality({k \in 1..Len(submitted) :
                                 submitted[k] = failed_segments[j]}) = 1

\* the pass is still running after two fetches of different sizes and one
\* empty fetch were drained
ResultsClassifiedOnceWitness ==
    /\ pc = "drain"
    /\ ~cancelled
    /\ completed_count = 2
    /\ Len(failed_segments) = 1
    /\ total_bytes = 3
    /\ wres[failed_segments[1]] = 0

\* C22: over the successive calls of progress_callback in one download the
\* reported completed count and the reported total bytes never decrease,
\* and the completed count is never above the reported number of segments.
ProgressMonotone ==
    /\ \A k \in 1..Len(reports) : reports[k].current <= reports[k].total
    /\ \A k \in 1..(Len(reports) - 1) :
          /\ reports[k].current <= reports[k + 1].current
          /\ reports[k].total_bytes <= reports[k + 1].total_bytes

\* the "Merging..." report follows drain-loop reports in which the bytes grew
\* and a failed segment kept the count below the total
ProgressMonotoneWitness ==
    /\ pc = "ffmpeg"
    /\ Len(reports) = nseg + 1
    /\ nseg = MaxSegs
    /\ reports[1].total_bytes < reports[2].total_bytes
    /\ reports[nseg].current < nseg
    /\ reports[nseg + 1].current = nseg

\* C23: download fetches a playlist at most twice; a first playlist without
\* segments that offers a variant is followed by the fetch of that variant,
\* and when the second playlist has no segments either, download ends there
\* as a failure: no third fetch, no temp directory created, no key and no
\* segment fetched.
PlaylistFetchedAtMostTwice ==
    /\ Len(fetched) <= 2
    /\ fetchNo = Len(fetched)
    /\ Len(fetched) = 2 => fetched[1] = "master"
    /\ fetched = <<"master">> =>
          \/ pc = "fetch"
          \/ pc = "done" /\ outcome = "cancelled" /\ cancel
    /\ (Len(fetched) = 2 /\ fetched[2] \in {"master", "master_no_variant"}) =>
          /\ pc = "done"
          /\ outcome = IF logged = "no_segments" THEN "false" ELSE "cancelled"
          /\ outcome = "cancelled" => cancel
          /\ ~tempCreated
          /\ ~keyFile
          /\ keyUri = "none"
          /\ submitted = <<>>
          /\ \A i \in Segs : wstate[i] = "none"

\* a master playlist whose selected variant is a master playlist again
PlaylistFetchedAtMostTwiceWitness ==
    /\ pc = "done"
    /\ fetched = <<"master", "master">>
    /\ outcome = "false"
    /\ ~cancel

\* C24: for a playlist that declares a key with a URI the key fetch comes
\* before the first segment submission, and the key URI of a written local
\* manifest is the local file name key.key, never the remote URL.
KeyLocalInManifest ==
    /\ (hasKey /\ submitted # <<>>) => keyUri # "none"
    /\ (hasKey /\ manifestFile) => manifestKey = "local"

\* C20: after the scheduler pass the segments whose local file is missing or
\* empty are fetched again one at a time, each at most 3 times and not after
\* its first successful fetch, never while the cancel signal is set; a
\* segment whose local file is non-empty is not fetched again.
RetryPassBounded ==
    /\ [](\A i \in Segs :
            /\ Len(retried[i]) <= RetryAttempts
            /\ \A k \in 1..(Len(retried[i]) - 1) : retried[i][k] = 0)
    /\ [](pc = "manifest" =>
            \A i \in 1..nseg :
                \/ segFile[i] > 0 /\ retried[i] = <<>>
                \/ /\ segFile[i] > 0
                   /\ retried[i][Len(retried[i])] = segFile[i]
                \/ /\ segFile[i] <= 0
                   /\ Len(retried[i]) = RetryAttempts)
    /\ [][retried' # retried =>
            /\ ~cancel
            /\ pc \in {"attempt"}
            /\ Running = {}
            /\ \E i \in 1..nseg :
                /\ segFile[i] <= 0
                /\ \E s \in 0..MaxSize : retried'[i] = Append(retried[i], s)
                /\ \A j \in Segs \ {i} : retried'[j] = retried[j]]_vars

\* a retry pass over three segments: one fetched by the scheduler and left
\* alone, one recovered at its second retry, one still empty after three
RetryPassBoundedWitness ==
    /\ pc = "manifest"
    /\ \E i \in 1..nseg : segFile[i] > 0 /\ retried[i] = <<>>
    /\ \E i \in 1..nseg : Len(retried[i]) = 2 /\ retried[i][2] > 0
    /\ \E i \in 1..nseg : Len(retried[i]) = RetryAttempts /\ segFile[i] <= 0


(***************************************************************************)
(* The metadata merge engine: mr_banana/scraper/merger.py.                 *)
(*                                                                         *)
(* A value of the loosely typed data bag is a record                       *)
(*   k   : "none" (None), "str", "list", "absent" (key not in the dict)    *)
(*   n   : length of the text once stripped and whitespace-collapsed, or   *)
(*         number of items of the list                                     *)
(*   pad : 1 when the string has surrounding whitespace                    *)
(*   m   : what the text contains ("plain", "placeholder", "meta",         *)
(*         "code", "hyphenated")                                           *)
(*   id  : the content                                                     *)
(***************************************************************************)
MaxResults == 2

Sources == {"javbus", "dmm", "javtrailers"}

NoneV == [k |-> "none", n |-> 0, pad |-> 0, m |-> "", id |-> ""]
AbsentV == [k |-> "absent", n |-> 0, pad |-> 0, m |-> "", id |-> ""]
StrV(id, n, m) == [k |-> "str", n |-> n, pad |-> 0, m |-> m, id |-> id]
PaddedV(id, n, m) == [k |-> "str", n |-> n, pad |-> 1, m |-> m, id |-> id]
ListV(id, n) == [k |-> "list", n |-> n, pad |-> 0, m |-> "", id |-> id]
DictV(id, n) == [k |-> "dict", n |-> n, pad |-> 0, m |-> "", id |-> id]
EmptyStr == StrV("", 0, "")
\* the evaluation of an expression raised an exception
RaisedV == [k |-> "raised", n |-> 0, pad |-> 0, m |-> "", id |-> ""]

\* merger.py 216-224: the fields resolved by the generic loop, in its order
GenericFields ==
    <<"actors", "studio", "series", "release", "runtime", "directors", "tags">>
GenericFieldSet == {GenericFields[k] : k \in 1..Len(GenericFields)}

\* merger.py 231-273: the fields resolved from URLs
UrlFields == {"trailer_url", "poster_url", "fanart_url", "preview_urls"}

\* keys of CrawlResult.data: the plot, the generic fields, the URL fields,
\* the cover the artwork is derived from and one key that no rule of
\* merge_results names
DataKeys ==
    {"plot", "trailer_file", "cover_url"} \cup GenericFieldSet \cup UrlFields

\* fields that have a priority list
PriorityFields == {"title", "plot"} \cup GenericFieldSet \cup UrlFields

\* field_sources[field] of a field that is not a key of the map
Unset == <<"(unset)">>

\* merger.py 8-22
DefaultPriority(field) ==
    IF field = "plot" THEN <<"dmm">>
    ELSE IF field \in PriorityFields THEN <<"javtrailers">>
    ELSE <<>>

\* merger.py 48, 52
NoRank == 10000

\* an emptiness test that forgets the empty map
IsEmptyValueNoMap(v) ==
    \/ v.k = "none"
    \/ v.k = "absent"
    \/ (v.k = "str" /\ v.n = 0 /\ v.pad = 0)
    \/ (v.k = "list" /\ v.n = 0)

\* merger.py 161, 228, 280: v in (None, "") or v == [] or v == {}
IsEmptyValue(v) ==
    \/ v.k = "none"
    \/ v.k = "absent"
    \/ (v.k = "str" /\ v.n = 0 /\ v.pad = 0)
    \/ (v.k = "list" /\ v.n = 0)
    \/ (v.k = "dict" /\ v.n = 0)

\* str.strip()
Strip(v) == IF v.k = "str" THEN [v EXCEPT !.pad = 0] ELSE v

\* isinstance(v, str) and v.strip()
NonBlankStr(v) == v.k = "str" /\ v.n > 0

\* merger.py 25-29
field_disabled(field, fs) ==
    IF (\A f \in DOMAIN fs : fs[f] = Unset) \/ fs[field] = Unset
    THEN FALSE
    ELSE fs[field] = <<>>

\* merger.py 32-52: every source ranks at the sentinel
rank_for_no_priority(field, source, fs) == NoRank

\* merger.py 32-52
rank_for(field, source, fs) ==
    LET pref == IF fs[field] # Unset THEN fs[field]
                ELSE DefaultPriority(field)
        at == {k \in 1..Len(pref) : pref[k] = source}
    IN  IF pref = <<>> \/ at = {} THEN NoRank
        ELSE (CHOOSE k \in at : \A j \in at : k <= j) - 1

\* merger.py 154-155: the indices of results sorted by (rank, index)
RECURSIVE SortByRank(_, _, _, _)
SortByRank(S, rs, field, fs) ==
    IF S = {} THEN <<>>
    ELSE LET least == CHOOSE i \in S : \A j \in S :
                 \/ rank_for(field, rs[i].source, fs)
                        < rank_for(field, rs[j].source, fs)
                 \/ /\ rank_for(field, rs[i].source, fs)
                        = rank_for(field, rs[j].source, fs)
                    /\ i <= j
         IN  <<least>> \o SortByRank(S \ {least}, rs, field, fs)

\* merger.py 157-160: an exception of the getter counts as None
Caught(v) == IF v = RaisedV THEN NoneV ELSE v

\* merger.py 151-164
\* got[i] is getter(rs[i])
pick_by_priority(rs, field, got, fs) ==
    IF field_disabled(field, fs) THEN NoneV
    ELSE LET order == SortByRank(1..Len(rs), rs, field, fs)
             hits == {k \in 1..Len(order) :
                         ~IsEmptyValue(Caught(got[order[k]]))}
         IN  IF hits = {} THEN NoneV
             ELSE got[order[CHOOSE k \in hits : \A j \in hits : k <= j]]

\* `for r in results: if <test>: ...; break`: the value of the first result,
\* in input order, among those at the indices `passing`
FirstInOrder(got, passing) ==
    IF passing = {} THEN NoneV
    ELSE got[CHOOSE k \in passing : \A j \in passing : k <= j]

\* the indices of the non-empty values of got
NonEmptyAt(got) == {k \in 1..Len(got) : ~IsEmptyValue(got[k])}

\* a test that only takes letters before the hyphen and digits after it
is_letters_digits(v) == v.k = "str" /\ v.m = "code"

\* merger.py 55-57: [A-Za-z0-9]+-[A-Za-z0-9]+ on the stripped string
is_probably_code(v) == v.k = "str" /\ v.m \in {"code", "hyphenated"}

\* merger.py 60-80
looks_meta_plot(v) == v.k = "str" /\ v.n > 0 /\ v.m = "meta"

\* merger.py 109
MinPlotLen == 20

\* merger.py 83-109 with the length test off by one
looks_placeholder_plot_le(v) ==
    \/ v.k # "str"
    \/ v.n = 0
    \/ v.m = "placeholder"
    \/ v.n <= MinPlotLen

\* merger.py 83-109
looks_placeholder_plot(v) ==
    \/ v.k # "str"
    \/ v.n = 0
    \/ v.m = "placeholder"
    \/ v.n < MinPlotLen

\* merger.py 112-113
looks_bad_plot(v) == looks_placeholder_plot(v) \/ looks_meta_plot(v)

\* the kinds of string that start with http:// or https://: any such URL,
\* a DMM cover ending in ps.jpg, a DMM cover ending in pl.jpg
HttpKinds == {"http", "dmm_ps", "dmm_pl"}

\* merger.py 116-124
valid_url(v) ==
    IF v.k = "str" /\ v.n > 0 /\ v.m \in HttpKinds THEN Strip(v) ELSE NoneV

\* the two DMM variants of one picture
DmmPs == StrV("https://pics.dmm.co.jp/c/cps.jpg", 32, "dmm_ps")
DmmPl == StrV("https://pics.dmm.co.jp/c/cpl.jpg", 32, "dmm_pl")

\* merger.py 127-148 on the values above: <<poster, fanart>>
derive_dmm_value(cover) ==
    IF cover.k # "str" THEN <<NoneV, NoneV>>
    ELSE IF cover.m = "dmm_ps" THEN <<Strip(cover), DmmPl>>
    ELSE IF cover.m = "dmm_pl" THEN <<DmmPs, Strip(cover)>>
    ELSE <<NoneV, NoneV>>

\* Python's `a or b` on values that are None or a non-empty string
OrElse(a, b) == IF a # NoneV THEN a ELSE b


(***************************************************************************)
(* merge_results, one action per block of the function.                    *)
(***************************************************************************)
\* the values a crawler can put under the field f
PlotValues ==
    {NoneV, EmptyStr,
     StrV("short", MinPlotLen - 1, "plain"),
     StrV("exact", MinPlotLen, "plain"),
     StrV("long", MinPlotLen + 10, "plain"),
     StrV("jsrequired", MinPlotLen + 10, "placeholder"),
     StrV("blob", MinPlotLen + 20, "meta")}
TitleValues ==
    {NoneV, EmptyStr,
     StrV("ADN-529", 7, "code"),
     StrV("Love-Story", 10, "hyphenated"),
     StrV("A title", 7, "plain"),
     PaddedV("B title", 7, "plain")}
ScalarValues == {NoneV, EmptyStr, StrV("x", 1, "plain"), StrV("y", 1, "plain")}
\* the values under a key that no rule names: also maps
OtherValues == ScalarValues \cup {DictV("", 0), DictV("d", 1)}
\* URL-valued fields: nothing, a relative path, a list, absolute URLs
UrlValues ==
    {NoneV, EmptyStr,
     StrV("/v/a.mp4", 8, "rel"),
     ListV("a", 1),
     StrV("http://h/a", 10, "http"),
     PaddedV("https://h/b", 11, "http")}
ArtValues == {NoneV, StrV("/p/a.jpg", 8, "rel"), StrV("http://h/p.jpg", 14, "http")}
CoverValues ==
    {NoneV, StrV("/c/a.jpg", 8, "rel"), StrV("http://h/c.jpg", 14, "http"),
     DmmPs, DmmPl}
\* the covers that go with a value of the field f
CoversOf(f) ==
    IF f \in {"poster_url", "fanart_url"} THEN CoverValues \ {StrV("/c/a.jpg", 8, "rel")}
    ELSE {NoneV}
ListValues == {NoneV, ListV("", 0), ListV("a", 1), ListV("b", 2)}
IdValues == {NoneV, EmptyStr, StrV("ABC-123", 7, "code")}

ListFields == {"actors", "directors", "tags"}

ValuesOf(f) ==
    IF f = "plot" THEN PlotValues
    ELSE IF f = "title" THEN TitleValues
    ELSE IF f \in {"external_id", "original_url"} THEN IdValues
    ELSE IF f \in ListFields \cup {"preview_urls"} THEN ListValues
    ELSE IF f = "trailer_url" THEN UrlValues
    ELSE IF f \in {"poster_url", "fanart_url"} THEN ArtValues
    ELSE IF f = "cover_url" THEN CoverValues
    ELSE IF f = "trailer_file" THEN OtherValues
    ELSE ScalarValues

Focuses == {"title", "external_id", "original_url"} \cup DataKeys

FieldNames == PriorityFields \cup DataKeys

\* lists of distinct sources of length at most 2
SourceLists ==
    {<<>>} \cup {<<a>> : a \in Sources}
           \cup ({<<a, b>> : a, b \in Sources} \ {<<a, a>> : a \in Sources})

\* a dict without any key
EmptyDict == [k \in DataKeys |-> AbsentV]
\* None where a dict is expected: every access raises AttributeError
NoDict == [k \in DataKeys |-> RaisedV]

\* types.py 18-28: the CrawlResult of source src carrying v under field f
\* and cover under cover_url; data_is_none: its data attribute is None
\* instead of a dict
MkResult(src, f, v, cover, nodata) ==
    [source |-> src,
     title |-> IF f = "title" THEN v ELSE NoneV,
     external_id |-> IF f = "external_id" THEN v ELSE NoneV,
     original_url |-> IF f = "original_url" THEN v ELSE NoneV,
     data_is_none |-> nodata,
     data |-> IF nodata THEN EmptyDict
              ELSE [k \in DataKeys |-> IF k = f THEN v
                                       ELSE IF k = "cover_url" THEN cover
                                       ELSE NoneV]]

\* r.data used as it is, without the `or {}`
data_unguarded(r) == IF r.data_is_none THEN NoDict ELSE r.data

\* merger.py 200, 207, 227, 277: (r.data or {})
data_or_empty(r) == IF r.data_is_none THEN EmptyDict ELSE r.data

\* one CrawlResult per crawler (runner.py 249-268): the sources are distinct
InitMerge ==
    /\ pc = "idle"
    /\ cancel = FALSE
    /\ nseg = 1
    /\ maxw = 1
    /\ hasKey = FALSE
    /\ dirExists = FALSE
    /\ DownloadLocals
    /\ SelectIdle
    /\ ArtIdle
    /\ HistIdle
    /\ mpc = "ids"
    /\ merged = <<>>
    /\ focus \in Focuses
    /\ \E n \in 0..MaxResults :
        \E srcs \in [1..n -> Sources] : \E vals \in [1..n -> ValuesOf(focus)] :
        \E nodata \in [1..n -> BOOLEAN] : \E covers \in [1..n -> CoversOf(focus)] :
            /\ \A i, j \in 1..n : i # j => srcs[i] # srcs[j]
            /\ \A i \in 1..n :
                  (nodata[i] /\ focus \in DataKeys) => vals[i] = NoneV
            /\ \A i \in 1..n : nodata[i] => covers[i] = NoneV
            /\ results = [i \in 1..n |->
                              MkResult(srcs[i], focus, vals[i], covers[i],
                                       nodata[i])]
    /\ \E lst \in SourceLists \cup {Unset} :
        /\ (focus \notin PriorityFields) => lst = Unset
        /\ field_sources = [f \in FieldNames |-> IF f = focus THEN lst ELSE Unset]

\* the values the getters of merge_results extract from the results
StrippedTitles ==
    [i \in 1..Len(results) |->
        IF results[i].title.k = "str" THEN Strip(results[i].title) ELSE NoneV]
Titles == [i \in 1..Len(results) |-> results[i].title]
ExternalIds == [i \in 1..Len(results) |-> results[i].external_id]
OriginalUrls == [i \in 1..Len(results) |-> results[i].original_url]
DataOf(key) == [i \in 1..Len(results) |-> data_or_empty(results[i])[key]]

\* merger.py 173-180
MergeIds ==
    /\ mpc = "ids"
    /\ merged' = [source |-> "merged",
                  title |-> NoneV,
                  external_id |->
                      FirstInOrder(ExternalIds, NonEmptyAt(ExternalIds)),
                  original_url |->
                      FirstInOrder(OriginalUrls, NonEmptyAt(OriginalUrls)),
                  data |-> [k \in DataKeys |-> AbsentV]]
    /\ mpc' = "title"
    /\ UNCHANGED <<dlVars, selectVars, artVars, histVars, results, field_sources, focus>>

\* merger.py 183-197
MergeTitle ==
    /\ mpc = "title"
    /\ LET picked_title == pick_by_priority(results, "title", StrippedTitles, field_sources)
       IN  merged' =
             IF field_disabled("title", field_sources) THEN merged
             ELSE IF NonBlankStr(picked_title) /\ ~is_probably_code(picked_title)
             THEN [merged EXCEPT !.title = Strip(picked_title)]
             ELSE [merged EXCEPT !.title =
                      FirstInOrder(Titles, NonEmptyAt(Titles))]
    /\ mpc' = "plot"
    /\ UNCHANGED <<dlVars, selectVars, artVars, histVars, results, field_sources, focus>>

\* merger.py 200-214
MergePlot ==
    /\ mpc = "plot"
    /\ LET plots == DataOf("plot")
           plot_val == pick_by_priority(results, "plot", plots, field_sources)
           good == {k \in 1..Len(plots) :
                       NonBlankStr(plots[k]) /\ ~looks_bad_plot(plots[k])}
           other == FirstInOrder(plots, good)
           \* the loop of line 206 reads the plot of a result whose data
           \* cannot be read, before it reaches its break
           raises == \E k \in 1..Len(plots) :
                        /\ plots[k] = RaisedV
                        /\ \A j \in good : k < j
       IN  IF field_disabled("plot", field_sources)
           THEN merged' = merged /\ mpc' = "fields"
           ELSE IF NonBlankStr(plot_val) /\ ~looks_bad_plot(plot_val)
           THEN /\ merged' = [merged EXCEPT !.data["plot"] = Strip(plot_val)]
                /\ mpc' = "fields"
           ELSE IF raises
           THEN merged' = merged /\ mpc' = "raised"
           ELSE IF other # NoneV
           THEN /\ merged' = [merged EXCEPT !.data["plot"] = Strip(other)]
                /\ mpc' = "fields"
           ELSE IF NonBlankStr(plot_val)
           THEN /\ merged' = [merged EXCEPT !.data["plot"] = Strip(plot_val)]
                /\ mpc' = "fields"
           ELSE merged' = merged /\ mpc' = "fields"
    /\ UNCHANGED <<dlVars, selectVars, artVars, histVars, results, field_sources, focus>>

\* merger.py 225-229: the body of the loop for one key
MergeField(data, key) ==
    IF field_disabled(key, field_sources) THEN data
    ELSE LET v == pick_by_priority(results, key, DataOf(key), field_sources)
         IN  IF ~IsEmptyValue(v) THEN [data EXCEPT ![key] = v] ELSE data

RECURSIVE MergeFieldsFrom(_, _)
\* merger.py 216-229: the loop over the generic fields
MergeFieldsFrom(data, k) ==
    IF k > Len(GenericFields) THEN data
    ELSE MergeFieldsFrom(MergeField(data, GenericFields[k]), k + 1)

\* merger.py 216-229
MergeFields ==
    /\ mpc = "fields"
    /\ merged' = [merged EXCEPT !.data = MergeFieldsFrom(merged.data, 1)]
    /\ mpc' = "trailer"
    /\ UNCHANGED <<dlVars, selectVars, artVars, histVars, results, field_sources, focus>>

\* the getters of lines 234, 245-249 and 255-258
ValidUrls(key) == [i \in 1..Len(results) |-> valid_url(DataOf(key)[i])]
PosterCandidates ==
    [i \in 1..Len(results) |->
        OrElse(ValidUrls("poster_url")[i],
               OrElse(derive_dmm_value(ValidUrls("cover_url")[i])[1],
                      ValidUrls("cover_url")[i]))]
FanartCandidates ==
    [i \in 1..Len(results) |->
        OrElse(ValidUrls("fanart_url")[i],
               derive_dmm_value(ValidUrls("cover_url")[i])[2])]

\* lines 237-239, 263-269: store the picked value when it is a string
StoreStr(data, key, v) ==
    IF ~field_disabled(key, field_sources) /\ v.k = "str"
    THEN [data EXCEPT ![key] = v] ELSE data

\* merger.py 231-239
MergeTrailer ==
    /\ mpc = "trailer"
    /\ LET trailer == pick_by_priority(results, "trailer_url",
                                       ValidUrls("trailer_url"), field_sources)
       IN  merged' = [merged EXCEPT
                         !.data = StoreStr(merged.data, "trailer_url", trailer)]
    /\ mpc' = "artwork"
    /\ UNCHANGED <<dlVars, selectVars, artVars, histVars, results, field_sources, focus>>

\* merger.py 242-273
MergeArtwork ==
    /\ mpc = "artwork"
    /\ LET poster == pick_by_priority(results, "poster_url",
                                      PosterCandidates, field_sources)
           fanart == pick_by_priority(results, "fanart_url",
                                      FanartCandidates, field_sources)
           previews == pick_by_priority(results, "preview_urls",
                                        DataOf("preview_urls"), field_sources)
           withPoster == StoreStr(merged.data, "poster_url", poster)
           withFanart == StoreStr(withPoster, "fanart_url", fanart)
       IN  merged' = [merged EXCEPT !.data =
                         IF /\ ~field_disabled("preview_urls", field_sources)
                            /\ previews.k = "list"
                            /\ previews.n > 0
                         THEN [withFanart EXCEPT !["preview_urls"] = previews]
                         ELSE withFanart]
    /\ mpc' = "fallback"
    /\ UNCHANGED <<dlVars, selectVars, artVars, histVars, results, field_sources, focus>>

\* a fallback pass without the test of line 278
MergeFallbackOverwrites ==
    /\ mpc = "fallback"
    /\ IF \E i \in 1..Len(results) : data_or_empty(results[i]) = NoDict
       THEN merged' = merged /\ mpc' = "raised"
       ELSE /\ merged' = [merged EXCEPT !.data =
                  [k \in DataKeys |->
                      LET v == FirstInOrder(DataOf(k), NonEmptyAt(DataOf(k)))
                      IN  IF v # NoneV THEN v ELSE merged.data[k]]]
            /\ mpc' = "done"
    /\ UNCHANGED <<dlVars, selectVars, artVars, histVars, results, field_sources, focus>>

\* merger.py 276-282: keys not yet in merged.data take the first non-empty
\* value in crawler order
MergeFallback ==
    /\ mpc = "fallback"
    /\ IF \E i \in 1..Len(results) : data_or_empty(results[i]) = NoDict
       THEN merged' = merged /\ mpc' = "raised"
       ELSE /\ merged' = [merged EXCEPT !.data =
                  [k \in DataKeys |->
                      IF merged.data[k] # AbsentV THEN merged.data[k]
                      ELSE LET v == FirstInOrder(DataOf(k), NonEmptyAt(DataOf(k)))
                           IN  IF v = NoneV THEN AbsentV ELSE v]]
            /\ mpc' = "done"
    /\ UNCHANGED <<dlVars, selectVars, artVars, histVars, results, field_sources, focus>>

\* file_path.stem
StemV == StrV("stem", 4, "plain")

\* the truth value Python gives a value of the bag
Truthy(v) == v.k \in {"str", "list"} /\ (v.n > 0 \/ v.pad = 1)

\* runner.py 273-277: the scrape driver seeds the record of a file no
\* crawler hit
SeedFromFileName ==
    /\ mpc = "done"
    /\ merged' =
          IF results = <<>>
          THEN [merged EXCEPT
                  !.title = IF Truthy(merged.title) THEN merged.title ELSE StemV,
                  !.external_id = IF Truthy(merged.external_id)
                                  THEN merged.external_id ELSE StemV,
                  !.original_url = IF Truthy(merged.original_url)
                                   THEN merged.original_url ELSE NoneV]
          ELSE merged
    /\ mpc' = "seeded"
    /\ UNCHANGED <<dlVars, selectVars, artVars, histVars, results, field_sources, focus>>

NextMerge ==
    \/ MergeIds
    \/ MergeTitle
    \/ MergePlot
    \/ MergeFields
    \/ MergeTrailer
    \/ MergeArtwork
    \/ MergeFallback
    \/ SeedFromFileName

SpecMerge == InitMerge /\ [][NextMerge]_vars


(***************************************************************************)
(* Properties of merge_results.                                            *)
(***************************************************************************)
\* the value the merged record holds for a field
MergedValue(f) ==
    IF f = "title" THEN merged.title
    ELSE IF f = "external_id" THEN merged.external_id
    ELSE IF f = "original_url" THEN merged.original_url
    ELSE merged.data[f]

\* the value a result holds for a field
ResultValue(r, f) ==
    IF f = "title" THEN r.title
    ELSE IF f = "external_id" THEN r.external_id
    ELSE IF f = "original_url" THEN r.original_url
    ELSE r.data[f]

Populated(v) == v # NoneV /\ v # AbsentV

SourcesIn(lst) == {lst[k] : k \in 1..Len(lst)}

\* C5: for each of actors, studio, series, release, runtime, directors and
\* tags, when field_sources[X] = [B, A] and the results of A and of B both
\* carry a non-empty X, the merged X is B's value, whatever the input order.
MergePriorityRespected ==
    mpc = "done" =>
        \A X \in GenericFieldSet : \A a, b \in 1..Len(results) :
            ( /\ a # b
              /\ field_sources[X] = <<results[b].source, results[a].source>>
              /\ ~IsEmptyValue(results[a].data[X])
              /\ ~IsEmptyValue(results[b].data[X]) )
            => merged.data[X] = results[b].data[X]

\* source A comes first in the input, B second, and their values differ
MergePriorityRespectedWitness ==
    /\ mpc = "done"
    /\ Len(results) = 2
    /\ focus \in GenericFieldSet
    /\ field_sources[focus] = <<results[2].source, results[1].source>>
    /\ ~IsEmptyValue(results[1].data[focus])
    /\ ~IsEmptyValue(results[2].data[focus])
    /\ results[1].data[focus] # results[2].data[focus]
    /\ merged.data[focus] = results[2].data[focus]

\* C6: a field whose field_sources entry is the empty list has no value in
\* the record returned by merge_results, whatever the input results carry.
DisabledFieldStaysEmpty ==
    mpc = "done" =>
        \A f \in PriorityFields :
            field_sources[f] = <<>> => ~Populated(MergedValue(f))

\* C7: with a non-empty source list for a field other than plot, the merged
\* value of the field is never taken from a result whose source is not in
\* that list.
OnlyListedSourcesUsed ==
    mpc = "done" =>
        \A f \in PriorityFields \ {"plot"} :
            ( /\ field_sources[f] # Unset
              /\ field_sources[f] # <<>>
              /\ Populated(MergedValue(f)) )
            => \E i \in 1..Len(results) :
                  /\ results[i].source \in SourcesIn(field_sources[f])
                  /\ Strip(ResultValue(results[i], f)) = Strip(MergedValue(f))

\* C13: merge_results raises for no list of results, whichever of their
\* fields are missing or empty, and for no field_sources map; for the empty
\* list it returns a record of source "merged" without title, external id
\* or data, which the scrape driver seeds with the file name as title and as
\* external id.
MergeNeverRaises ==
    /\ mpc # "raised"
    /\ (results = <<>> /\ mpc \in {"done", "seeded"}) =>
          /\ merged.source = "merged"
          /\ merged.data = EmptyDict
          /\ merged.original_url = NoneV
          /\ mpc = "done" =>
                (merged.title = NoneV /\ merged.external_id = NoneV)
          /\ mpc = "seeded" =>
                (merged.title = StemV /\ merged.external_id = StemV)

\* a result without a data dict comes before the one whose bad plot is kept
MergeNeverRaisesWitness ==
    /\ mpc = "seeded"
    /\ Len(results) = 2
    /\ results[1].data_is_none
    /\ results[1].title = NoneV
    /\ looks_bad_plot(results[2].data["plot"])
    /\ merged.data["plot"] = results[2].data["plot"]
    /\ merged.title = NoneV

\* the title picked by priority among the stripped titles
PickedTitle ==
    pick_by_priority(results, "title", StrippedTitles, field_sources)

\* the first non-empty title in input order
FirstTitle == FirstInOrder(Titles, NonEmptyAt(Titles))

\* C26 (as stated): with title not disabled, a non-empty priority-selected
\* title that is not of the form LETTERS-DIGITS is the merged title; one of
\* that form gives way to the first non-empty title in input order.
TitleRejectsOnlyLettersDigits ==
    (mpc = "done" /\ field_sources["title"] # <<>> /\ NonBlankStr(PickedTitle))
        => merged.title = IF PickedTitle.m = "code" THEN FirstTitle
                          ELSE PickedTitle

\* C26 (amended): with title not disabled, a non-empty priority-selected
\* title is the merged title unless it consists of two runs of ASCII letters
\* or digits joined by one hyphen (ADN-529, but also Love-Story); such a
\* title gives way to the first non-empty title in input order.
TitleRejectsAlnumHyphenAlnum ==
    (mpc = "done" /\ field_sources["title"] # <<>> /\ NonBlankStr(PickedTitle))
        => merged.title = IF PickedTitle.m \in {"code", "hyphenated"}
                          THEN FirstTitle
                          ELSE PickedTitle

\* the title picked by priority is a hyphenated word, not a code, and the
\* merged title is the one of the result that comes first in the input
TitleRejectsAlnumHyphenAlnumWitness ==
    /\ mpc = "done"
    /\ Len(results) = 2
    /\ field_sources["title"] = Unset
    /\ PickedTitle = StrV("Love-Story", 10, "hyphenated")
    /\ results[1].title = StrV("A title", 7, "plain")
    /\ merged.title = results[1].title

\* C25: at every step of the merge a trailer_url held by the merged record
\* is a string starting with http:// or https://; a result whose trailer_url
\* is anything else never supplies it.
TrailerAlwaysAbsoluteUrl ==
    mpc # "ids" =>
        \/ merged.data["trailer_url"] = AbsentV
        \/ /\ merged.data["trailer_url"].k = "str"
           /\ merged.data["trailer_url"].m \in HttpKinds

\* the candidate of the first result, in priority order for the field, that
\* has one; no value when no result has one.  cands[i] is the candidate of
\* results[i]
FirstCandidate(field, cands) ==
    LET v == pick_by_priority(results, field, cands, field_sources)
    IN  IF v = NoneV THEN AbsentV ELSE v

\* C27: the merged poster_url is the first existing one of (own valid
\* poster_url, DMM poster derived from cover_url, raw valid cover_url) of the
\* first result in priority order that has one; the merged fanart_url
\* likewise from (own valid fanart_url, DMM fanart derived from cover_url),
\* the raw cover_url not being a candidate.
ArtworkFromCandidates ==
    mpc = "done" =>
        /\ field_sources["poster_url"] # <<>> =>
              merged.data["poster_url"] =
                  FirstCandidate("poster_url", PosterCandidates)
        /\ field_sources["fanart_url"] # <<>> =>
              merged.data["fanart_url"] =
                  FirstCandidate("fanart_url", FanartCandidates)

\* None, the empty string, the empty list, the empty map, or no value
EmptyAsListed(v) ==
    v \in {NoneV, AbsentV, EmptyStr, ListV("", 0), DictV("", 0)}

\* the results, in input order, that carry a non-empty value under key k
Carrying(k) ==
    {i \in 1..Len(results) : ~EmptyAsListed(results[i].data[k])}

\* C28: the final fallback pass leaves every key that an earlier step
\* populated as it is, gives every other key the first non-empty value the
\* results hold for it in input order (none when there is none), and
\* changes nothing else of the merged record.
FallbackFillsOnlyMissing ==
    [][(mpc = "fallback" /\ mpc' = "done") =>
          /\ \A k \in DataKeys :
                merged'.data[k] =
                    IF merged.data[k] # AbsentV THEN merged.data[k]
                    ELSE IF Carrying(k) = {} THEN AbsentV
                    ELSE results[CHOOSE i \in Carrying(k) :
                                    \A j \in Carrying(k) : i <= j].data[k]
          /\ merged'.title = merged.title
          /\ merged'.external_id = merged.external_id
          /\ merged'.original_url = merged.original_url]_vars

\* the poster was picked by priority from the second result although the
\* first one carries a poster_url too, and the cover_url of the second
\* result was filled in by the fallback pass
FallbackFillsOnlyMissingWitness ==
    /\ mpc = "done"
    /\ Len(results) = 2
    /\ ~EmptyAsListed(results[1].data["poster_url"])
    /\ ~EmptyAsListed(results[2].data["poster_url"])
    /\ results[1].data["poster_url"] # results[2].data["poster_url"]
    /\ merged.data["poster_url"] = results[2].data["poster_url"]
    /\ results[1].data["cover_url"] = NoneV
    /\ merged.data["cover_url"] = DmmPl

\* C30: no key of the data map returned by merge_results holds None, the
\* empty string, the empty list or the empty map.
NoEmptyValueInData ==
    mpc \in {"done", "seeded"} =>
        \A k \in DataKeys :
            merged.data[k] \notin {NoneV, EmptyStr, ListV("", 0), DictV("", 0)}

\* the results carry, under the same key, an empty map, an empty string and
\* None next to plain values, and the key is absent or holds a plain value
NoEmptyValueInDataWitness ==
    /\ mpc = "done"
    /\ Len(results) = 2
    /\ focus = "trailer_file"
    /\ results[1].data["trailer_file"] = DictV("", 0)
    /\ results[2].data["trailer_file"] = DictV("d", 1)
    /\ merged.data["trailer_file"] = DictV("d", 1)

\* a plot that looks bad: placeholder text, shorter than 20 characters, or a
\* meta-blob
BadPlot(v) == v.m \in {"placeholder", "meta"} \/ v.n < 20

\* the plot the merged record has to hold
ExpectedPlot ==
    LET sel == pick_by_priority(results, "plot", DataOf("plot"), field_sources)
        good == {k \in 1..Len(results) :
                    /\ ~IsEmptyValue(results[k].data["plot"])
                    /\ ~BadPlot(results[k].data["plot"])}
    IN  IF sel = NoneV THEN AbsentV
        ELSE IF ~BadPlot(sel) THEN sel
        ELSE IF good # {}
        THEN results[CHOOSE k \in good : \A j \in good : k <= j].data["plot"]
        ELSE sel

MaxVariants == 3
MaxPrefLen == 3
MaxBandwidth == 2

\* preferred_resolution is None
NonePref == <<"(none)">>
\* _parse_target_height returns None
NoTarget == 0 - 1
\* the variant has no RESOLUTION attribute: h is None
NoHeight == 0 - 1
\* _select_variant_url returns None
NoVariant == 0

PrefChars == {"1", "2", "p", "P", " "}
Digits == {"0", "1", "2", "3", "4", "5", "6", "7", "8", "9"}

DigitValue(c) ==
    CASE c = "0" -> 0 [] c = "1" -> 1 [] c = "2" -> 2 [] c = "3" -> 3
      [] c = "4" -> 4 [] c = "5" -> 5 [] c = "6" -> 6 [] c = "7" -> 7
      [] c = "8" -> 8 [] c = "9" -> 9

\* str.lower() on the characters used here
LowerChar(c) ==
    CASE c = "P" -> "p" [] c = "B" -> "b" [] c = "E" -> "e" [] c = "S" -> "s"
      [] c = "T" -> "t" [] OTHER -> c
Lower(str) == [k \in 1..Len(str) |-> LowerChar(str[k])]

RECURSIVE StripLeft(_)
StripLeft(str) ==
    IF str # <<>> /\ Head(str) = " " THEN StripLeft(Tail(str)) ELSE str
RECURSIVE StripRight(_)
StripRight(str) ==
    IF str # <<>> /\ str[Len(str)] = " "
    THEN StripRight(SubSeq(str, 1, Len(str) - 1)) ELSE str
\* str.strip()
StripWs(str) == StripRight(StripLeft(str))

\* str.isdigit()
IsDigitStr(str) == str # <<>> /\ \A k \in 1..Len(str) : str[k] \in Digits

RECURSIVE ToInt(_)
\* int(str) of a digit string
ToInt(str) ==
    IF str = <<>> THEN 0
    ELSE 10 * ToInt(SubSeq(str, 1, Len(str) - 1)) + DigitValue(str[Len(str)])

Best == <<"b", "e", "s", "t">>
Auto == <<"a", "u", "t", "o">>

\* hls.py 49-59
parse_target_height(pref) ==
    IF pref = NonePref \/ pref = <<>> THEN NoTarget
    ELSE LET str == Lower(StripWs(pref))
         IN  IF str \in {Best, Auto} THEN NoTarget
             ELSE IF str # <<>> /\ str[Len(str)] = "p"
                     /\ IsDigitStr(SubSeq(str, 1, Len(str) - 1))
             THEN ToInt(SubSeq(str, 1, Len(str) - 1))
             ELSE IF IsDigitStr(str) THEN ToInt(str)
             ELSE NoTarget

\* x[2] or 0
HeightOrZero(h) == IF h = NoHeight THEN 0 ELSE h

\* the sort key of hls.py 93 and 98 with bandwidth before height
FirstByBandwidthFirst(cands, S) ==
    CHOOSE i \in S : \A j \in S :
        \/ cands[i].bw > cands[j].bw
        \/ /\ cands[i].bw = cands[j].bw
           /\ HeightOrZero(cands[i].h) > HeightOrZero(cands[j].h)
        \/ /\ cands[i].bw = cands[j].bw
           /\ HeightOrZero(cands[i].h) = HeightOrZero(cands[j].h)
           /\ i <= j

\* list.sort(key=(x[2] or 0, x[1]), reverse=True)[0] over the indices S:
\* the first element, in list order, whose key is the largest
FirstByQuality(cands, S) ==
    CHOOSE i \in S : \A j \in S :
        \/ HeightOrZero(cands[i].h) > HeightOrZero(cands[j].h)
        \/ /\ HeightOrZero(cands[i].h) = HeightOrZero(cands[j].h)
           /\ cands[i].bw > cands[j].bw
        \/ /\ HeightOrZero(cands[i].h) = HeightOrZero(cands[j].h)
           /\ cands[i].bw = cands[j].bw
           /\ i <= j

Abs(x) == IF x < 0 THEN 0 - x ELSE x

\* hls.py 104: sort(key=(abs(h - target_h), -bw))[0]
FirstByDistance(cands, S, target_h) ==
    CHOOSE i \in S : \A j \in S :
        \/ Abs(cands[i].h - target_h) < Abs(cands[j].h - target_h)
        \/ /\ Abs(cands[i].h - target_h) = Abs(cands[j].h - target_h)
           /\ cands[i].bw > cands[j].bw
        \/ /\ Abs(cands[i].h - target_h) = Abs(cands[j].h - target_h)
           /\ cands[i].bw = cands[j].bw
           /\ i <= j

\* hls.py 107: sort(key=bw, reverse=True)[0]
FirstByBandwidth(cands, S) ==
    CHOOSE i \in S : \A j \in S :
        \/ cands[i].bw > cands[j].bw
        \/ (cands[i].bw = cands[j].bw /\ i <= j)

\* hls.py 88-108 with a strict comparison against the target height
select_variant_url_strict(cands, pref) ==
    LET target_h == parse_target_height(pref)
        all == 1..Len(cands)
        under == {i \in all : cands[i].h # NoHeight /\ cands[i].h < target_h}
        above == {i \in all : cands[i].h # NoHeight}
    IN  IF cands = <<>> THEN NoVariant
        ELSE IF target_h = NoTarget THEN cands[FirstByQuality(cands, all)].uri
        ELSE IF under # {} THEN cands[FirstByQuality(cands, under)].uri
        ELSE IF above # {} THEN cands[FirstByDistance(cands, above, target_h)].uri
        ELSE cands[FirstByBandwidth(cands, all)].uri

\* hls.py 88-108
select_variant_url(cands, pref) ==
    LET target_h == parse_target_height(pref)
        all == 1..Len(cands)
        under == {i \in all : cands[i].h # NoHeight /\ cands[i].h <= target_h}
        above == {i \in all : cands[i].h # NoHeight}
    IN  IF cands = <<>> THEN NoVariant
        ELSE IF target_h = NoTarget THEN cands[FirstByQuality(cands, all)].uri
        ELSE IF under # {} THEN cands[FirstByQuality(cands, under)].uri
        ELSE IF above # {} THEN cands[FirstByDistance(cands, above, target_h)].uri
        ELSE cands[FirstByBandwidth(cands, all)].uri

\* heights of the enumerated variants; RESOLUTION heights are positive
HeightValues == {1, 2, 12}

RECURSIVE SeqsUpTo(_, _)
\* the sequences over S of length at most n
SeqsUpTo(S, n) ==
    IF n = 0 THEN {<<>>}
    ELSE LET shorter == SeqsUpTo(S, n - 1)
         IN  shorter \cup {Append(q, x) : q \in shorter, x \in S}

\* the master playlist of the end-to-end scenario: 360p/500, 720p/2000,
\* 1080p/4000, in any order
ScenarioVariants ==
    {[bw |-> 500, h |-> 360], [bw |-> 2000, h |-> 720], [bw |-> 4000, h |-> 1080]}
ScenarioPrefs ==
    {<<"7", "2", "0", "p">>, <<"4", "8", "0", "p">>, <<"4", "8", "0">>,
     <<"1", "0", "8", "0", "P">>, <<"2", "4", "0", "p">>, Best, Auto,
     <<"B", "E", "S", "T">>, NonePref}

InitSelect ==
    /\ pc = "idle"
    /\ cancel = FALSE
    /\ nseg = 1
    /\ maxw = 1
    /\ hasKey = FALSE
    /\ dirExists = FALSE
    /\ DownloadLocals
    /\ MergeIdle
    /\ ArtIdle
    /\ HistIdle
    /\ spc = "select"
    /\ variant_url = NoVariant
    /\ \/ /\ preferred_resolution \in SeqsUpTo(PrefChars, MaxPrefLen)
                                         \cup {Best, Auto, NonePref}
          /\ \E n \in 0..MaxVariants :
              \E bws \in [1..n -> 1..MaxBandwidth] :
              \E hs \in [1..n -> HeightValues \cup {NoHeight}] :
                  candidates = [i \in 1..n |-> [uri |-> i, bw |-> bws[i], h |-> hs[i]]]
       \/ /\ preferred_resolution \in ScenarioPrefs
          /\ \E perm \in [1..3 -> ScenarioVariants] :
                /\ \A i, j \in 1..3 : i # j => perm[i] # perm[j]
                /\ candidates = [i \in 1..3 |->
                        [uri |-> i, bw |-> perm[i].bw, h |-> perm[i].h]]

\* hls.py 126-131: download resolves the master playlist to one variant
SelectVariant ==
    /\ spc = "select"
    /\ variant_url' = select_variant_url(candidates, preferred_resolution)
    /\ spc' = "done"
    /\ UNCHANGED <<dlVars, mergeVars, artVars, histVars, preferred_resolution,
                   candidates>>

NextSelect == SelectVariant

SpecSelect == InitSelect /\ [][NextSelect]_vars


(***************************************************************************)
(* Properties of the variant selection.                                    *)
(***************************************************************************)
\* the preference reads "<N>p" or N (letter case and surrounding blanks
\* aside)
NumericPref(pref) ==
    /\ pref # NonePref
    /\ LET str == Lower(StripWs(pref))
       IN  \/ IsDigitStr(str)
           \/ /\ Len(str) >= 2
              /\ str[Len(str)] = "p"
              /\ IsDigitStr(SubSeq(str, 1, Len(str) - 1))

\* the N of a numeric preference
PrefNumber(pref) ==
    LET str == Lower(StripWs(pref))
    IN  IF str[Len(str)] = "p" THEN ToInt(SubSeq(str, 1, Len(str) - 1))
        ELSE ToInt(str)

KnownHeight == {i \in 1..Len(candidates) : candidates[i].h # NoHeight}

\* C9: with a numeric preference N the selected variant has the largest
\* known height <= N when there is one, otherwise the known height closest
\* to N; of 360p/720p/1080p, "720p" selects 720p and "480p" selects 360p.
SelectsBestUnderTarget ==
    (spc = "done" /\ NumericPref(preferred_resolution) /\ KnownHeight # {}) =>
        LET N == PrefNumber(preferred_resolution)
            under == {i \in KnownHeight : candidates[i].h <= N}
        IN  /\ variant_url \in KnownHeight
            /\ IF under # {}
               THEN /\ variant_url \in under
                    /\ \A i \in under :
                          candidates[i].h <= candidates[variant_url].h
               ELSE \A i \in KnownHeight :
                       Abs(candidates[variant_url].h - N)
                           <= Abs(candidates[i].h - N)
            /\ ( /\ {candidates[i].h : i \in 1..Len(candidates)} = {360, 720, 1080}
                 /\ preferred_resolution = <<"7", "2", "0", "p">> )
               => candidates[variant_url].h = 720
            /\ ( /\ {candidates[i].h : i \in 1..Len(candidates)} = {360, 720, 1080}
                 /\ preferred_resolution = <<"4", "8", "0", "p">> )
               => candidates[variant_url].h = 360

\* "480p" over 360p/720p/1080p, the 360p variant listed last
SelectsBestUnderTargetWitness ==
    /\ spc = "done"
    /\ preferred_resolution = <<"4", "8", "0", "p">>
    /\ Len(candidates) = 3
    /\ candidates[3].h = 360
    /\ variant_url = 3

\* v ranks no higher than w in (height, bandwidth) order, an unknown height
\* below every known one
RanksAtMost(v, w) ==
    \/ (v.h = NoHeight /\ w.h # NoHeight)
    \/ (v.h = NoHeight /\ w.h = NoHeight /\ v.bw <= w.bw)
    \/ (v.h # NoHeight /\ w.h # NoHeight /\ v.h < w.h)
    \/ (v.h # NoHeight /\ w.h # NoHeight /\ v.h = w.h /\ v.bw <= w.bw)

\* C10: with a preference that is "best", "auto", empty or not numeric, the
\* selected variant is maximal in (height, bandwidth) order over all
\* variants.
SelectsBestOverall ==
    (spc = "done" /\ ~NumericPref(preferred_resolution) /\ candidates # <<>>) =>
        /\ variant_url \in 1..Len(candidates)
        /\ \A i \in 1..Len(candidates) :
              RanksAtMost(candidates[i], candidates[variant_url])

\* an unrecognised preference; a variant of unknown height has at least the
\* bandwidth of the selected one, and one of equal height has less
SelectsBestOverallWitness ==
    /\ spc = "done"
    /\ preferred_resolution = <<"p", "1">>
    /\ variant_url \in KnownHeight
    /\ \E i \in 1..Len(candidates) :
          /\ candidates[i].h = NoHeight
          /\ candidates[i].bw >= candidates[variant_url].bw
    /\ \E i \in KnownHeight :
          /\ candidates[i].h = candidates[variant_url].h
          /\ candidates[i].bw < candidates[variant_url].bw


(***************************************************************************)
(* DMM artwork derivation: _derive_dmm_artwork (merger.py 127-148).       *)
(* A URL string is a sequence of tokens (scheme, host, "/", path segments *)
(* and file suffixes, "?", query text); the function works on the string, *)
(* the properties on the URL it was built from.                            *)
(***************************************************************************)
MaxPathLen == 3
MaxQueryLen == 2

Scheme == "https://"
Hosts == {"pics.dmm.co.jp", "PICS.DMM.CO.JP", "example.com"}
PathTokens == {"/", "x", "ps.jpg", "pl.jpg", "PS.JPG", "pics.dmm.co.jp"}
QueryTokens == {"x", "ps.jpg", "pl.jpg", "?"}

\* the URL has no query string
NoQuery == <<"(no query)">>
\* None, or the empty string
NoUrl == <<>>

\* the string of a URL
UrlString(url) ==
    <<Scheme, url.host, "/">> \o url.path
        \o (IF url.query = NoQuery THEN <<>> ELSE <<"?">> \o url.query)

\* str.lower() on a token
LowerToken(t) ==
    CASE t = "PICS.DMM.CO.JP" -> "pics.dmm.co.jp"
      [] t = "PS.JPG" -> "ps.jpg"
      [] t = "PL.JPG" -> "pl.jpg"
      [] OTHER -> t
LowerUrl(u) == [k \in 1..Len(u) |-> LowerToken(u[k])]

\* merger.py 138: "pics.dmm.co.jp/" in low
ContainsDmmHostText(low) ==
    \E k \in 1..(Len(low) - 1) : low[k] = "pics.dmm.co.jp" /\ low[k + 1] = "/"

\* re.search(r"(?i)<suffix>(?=$|\?)", u): the start of the first match, 0
\* when there is none
SearchSuffix(u, suffix) ==
    LET at == {k \in 1..Len(u) :
                  /\ LowerToken(u[k]) = suffix
                  /\ (k = Len(u) \/ u[k + 1] = "?")}
    IN  IF at = {} THEN 0 ELSE CHOOSE k \in at : \A j \in at : k <= j

\* re.sub(r"(?i)<suffix>(?=$|\?)", repl, u, count=1)
SubSuffix(u, suffix, repl) ==
    LET k == SearchSuffix(u, suffix)
    IN  IF k = 0 THEN u ELSE [u EXCEPT ![k] = repl]

\* (None, None)
NoArtwork == [poster |-> NoUrl, fanart |-> NoUrl]

\* merger.py 127-148
derive_dmm_artwork(cover) ==
    LET u == StripWs(cover)
        low == LowerUrl(u)
    IN  IF u = <<>> THEN NoArtwork
        ELSE IF ~ContainsDmmHostText(low) THEN NoArtwork
        ELSE IF SearchSuffix(u, "ps.jpg") # 0
        THEN [poster |-> u, fanart |-> SubSuffix(u, "ps.jpg", "pl.jpg")]
        ELSE IF SearchSuffix(u, "pl.jpg") # 0
        THEN [poster |-> SubSuffix(u, "pl.jpg", "ps.jpg"), fanart |-> u]
        ELSE NoArtwork

InitArtwork ==
    /\ pc = "idle"
    /\ cancel = FALSE
    /\ nseg = 1
    /\ maxw = 1
    /\ hasKey = FALSE
    /\ dirExists = FALSE
    /\ DownloadLocals
    /\ MergeIdle
    /\ SelectIdle
    /\ HistIdle
    /\ apc = "derive"
    /\ derived = NoArtwork
    /\ derived_back = NoArtwork
    /\ \E host \in Hosts :
       \E path \in SeqsUpTo(PathTokens, MaxPathLen) :
       \E query \in SeqsUpTo(QueryTokens, MaxQueryLen) \cup {NoQuery} :
           cover_url = [host |-> host, path |-> path, query |-> query]

\* merger.py 247, 257: the getters derive poster and fanart from cover_url
DeriveArtwork ==
    /\ apc = "derive"
    /\ derived' = derive_dmm_artwork(UrlString(cover_url))
    /\ apc' = "back"
    /\ UNCHANGED <<dlVars, mergeVars, selectVars, histVars, cover_url,
                   derived_back>>

\* _derive_dmm_artwork applied to the fanart URL it derived
DeriveBack ==
    /\ apc = "back"
    /\ derived_back' = derive_dmm_artwork(derived.fanart)
    /\ apc' = "done"
    /\ UNCHANGED <<dlVars, mergeVars, selectVars, histVars, cover_url, derived>>

NextArtwork ==
    \/ DeriveArtwork
    \/ DeriveBack

SpecArtwork == InitArtwork /\ [][NextArtwork]_vars


(***************************************************************************)
(* Properties of the artwork derivation.                                   *)
(***************************************************************************)
\* the URL is on host pics.dmm.co.jp (host names ignore letter case)
OnDmmHost(url) == LowerToken(url.host) = "pics.dmm.co.jp"

\* the path of the URL ends in the given suffix
PathEndsIn(url, suffix) ==
    url.path # <<>> /\ url.path[Len(url.path)] = suffix

\* the URL with the last token of its path replaced
WithPathSuffix(url, suffix) ==
    [url EXCEPT !.path = [url.path EXCEPT ![Len(url.path)] = suffix]]

\* C14: for every cover URL on host pics.dmm.co.jp whose path ends in ps.jpg
\* before the query string, the derived fanart is the same URL with that
\* suffix replaced by pl.jpg, and the poster derived from that fanart URL is
\* the original cover URL.
ArtworkRoundTrip ==
    (apc = "done" /\ OnDmmHost(cover_url) /\ PathEndsIn(cover_url, "ps.jpg")) =>
        /\ derived.fanart = UrlString(WithPathSuffix(cover_url, "pl.jpg"))
        /\ derived_back.poster = UrlString(cover_url)

\* C15: nothing is derived from a cover URL whose host is not pics.dmm.co.jp
\* nor from one whose path does not end in ps.jpg or pl.jpg (in any letter
\* case) before the query string.
DerivesNothingElsewhere ==
    ( /\ apc \in {"back", "done"}
      /\ \/ ~OnDmmHost(cover_url)
         \/ cover_url.path = <<>>
         \/ LowerToken(cover_url.path[Len(cover_url.path)])
                \notin {"ps.jpg", "pl.jpg"} )
    => derived = NoArtwork


(***************************************************************************)
(* Download history across restarts: HistoryManager (utils/history.py)    *)
(* driven by DownloadManager (api/manager.py).  A row of the downloads    *)
(* table is [status, completed_at], completed_at TRUE when it is not NULL. *)
(***************************************************************************)
MaxTasks == 2

TaskIds == 1..MaxTasks

\* history.py 110-155: update_task(task_id, status) on one row
update_task(row, status) ==
    [status |-> status,
     completed_at |-> row.completed_at \/ status \in {"Completed", "Failed"}]

\* history.py 257-258: the WHERE clause of mark_incomplete_as_paused
Incomplete(row) ==
    /\ ~row.completed_at
    /\ row.status \notin {"Completed", "Failed", "Paused"}

\* history.py 253-260: the UPDATE of mark_incomplete_as_paused
mark_incomplete_as_paused(rows) ==
    [t \in 1..Len(rows) |->
        IF Incomplete(rows[t]) THEN [rows[t] EXCEPT !.status = "Paused"]
        ELSE rows[t]]

\* history.py 261: cursor.rowcount
rowcount(rows) == Cardinality({t \in 1..Len(rows) : Incomplete(rows[t])})

\* a first process with an empty downloads table
InitHistory ==
    /\ pc = "idle"
    /\ cancel = FALSE
    /\ nseg = 1
    /\ maxw = 1
    /\ hasKey = FALSE
    /\ dirExists = FALSE
    /\ DownloadLocals
    /\ MergeIdle
    /\ SelectIdle
    /\ ArtIdle
    /\ tasks = <<>>
    /\ up = TRUE
    /\ active_tasks = {}
    /\ cancel_events = {}
    /\ wpos = [t \in TaskIds |-> "none"]
    /\ marked = 0

\* manager.py 100-143: start_download
StartDownload ==
    /\ up
    /\ Len(tasks) < MaxTasks
    /\ tasks' = Append(tasks, [status |-> "Preparing", completed_at |-> FALSE])
    /\ active_tasks' = active_tasks \cup {Len(tasks) + 1}
    /\ wpos' = [wpos EXCEPT ![Len(tasks) + 1] = "start"]
    /\ UNCHANGED <<dlVars, mergeVars, selectVars, artVars, up, cancel_events,
                   marked>>

\* manager.py 145-194: resume_download
ResumeDownload(t) ==
    /\ up
    /\ t \in 1..Len(tasks)
    /\ t \notin active_tasks
    /\ tasks[t].status # "Completed"
    /\ tasks' = [tasks EXCEPT ![t] = update_task(tasks[t], "Preparing")]
    /\ active_tasks' = active_tasks \cup {t}
    /\ cancel_events' = cancel_events \ {t}
    /\ wpos' = [wpos EXCEPT ![t] = "start"]
    /\ UNCHANGED <<dlVars, mergeVars, selectVars, artVars, up, marked>>

\* manager.py 236-259: pause_task
PauseTask(t) ==
    /\ up
    /\ t \in 1..Len(tasks)
    /\ tasks[t].status \notin {"Completed", "Failed"}
    /\ cancel_events' = IF wpos[t] # "none" THEN cancel_events \cup {t}
                        ELSE cancel_events
    /\ tasks' = [tasks EXCEPT ![t] = update_task(tasks[t], "Paused")]
    /\ UNCHANGED <<dlVars, mergeVars, selectVars, artVars, up, active_tasks,
                   wpos, marked>>

\* manager.py 504-506: the worker thread marks its task Downloading
WorkerBegin(t) ==
    /\ up
    /\ wpos[t] = "start"
    /\ tasks' = [tasks EXCEPT ![t] = update_task(tasks[t], "Downloading")]
    /\ wpos' = [wpos EXCEPT ![t] = "run"]
    /\ UNCHANGED <<dlVars, mergeVars, selectVars, artVars, up, active_tasks,
                   cancel_events, marked>>

\* manager.py 508-616: the download ends; DownloadCancelled is raised only
\* once the cancel event was set
WorkerEnd(t) ==
    /\ up
    /\ wpos[t] = "run"
    /\ \E how \in {"Completed", "Failed", "Paused"} :
        /\ how = "Paused" => t \in cancel_events
        /\ tasks' = [tasks EXCEPT ![t] = update_task(tasks[t], how)]
    /\ wpos' = [wpos EXCEPT ![t] = "none"]
    /\ cancel_events' = cancel_events \ {t}
    /\ UNCHANGED <<dlVars, mergeVars, selectVars, artVars, up, active_tasks,
                   marked>>

\* the process exits or is killed: its memory and its threads are gone, the
\* downloads table stays
ProcessExit ==
    /\ up
    /\ up' = FALSE
    /\ active_tasks' = {}
    /\ cancel_events' = {}
    /\ wpos' = [t \in TaskIds |-> "none"]
    /\ UNCHANGED <<dlVars, mergeVars, selectVars, artVars, tasks, marked>>

\* manager.py 25-38: DownloadManager.__init__ of the next process
Startup ==
    /\ ~up
    /\ up' = TRUE
    /\ tasks' = mark_incomplete_as_paused(tasks)
    /\ marked' = rowcount(tasks)
    /\ UNCHANGED <<dlVars, mergeVars, selectVars, artVars, active_tasks,
                   cancel_events, wpos>>

NextHistory ==
    \/ StartDownload
    \/ \E t \in TaskIds : ResumeDownload(t)
    \/ \E t \in TaskIds : PauseTask(t)
    \/ \E t \in TaskIds : WorkerBegin(t)
    \/ \E t \in TaskIds : WorkerEnd(t)
    \/ ProcessExit
    \/ Startup

SpecHistory == InitHistory /\ [][NextHistory]_vars


(***************************************************************************)
(* Properties of the download history.                                     *)
(***************************************************************************)
\* C16: at start-up mark_incomplete_as_paused sets to Paused exactly the tasks
\* without completed_at whose status is not Completed, Failed or Paused,
\* returns how many it changed and leaves every other task as it was; after
\* it no task of a previous process is still Preparing or Downloading.
StartupPausesLeftovers ==
    [][ (~up /\ up') =>
          /\ Len(tasks') = Len(tasks)
          /\ \A t \in 1..Len(tasks) :
                IF /\ ~tasks[t].completed_at
                   /\ tasks[t].status \notin {"Completed", "Failed", "Paused"}
                THEN tasks'[t] = [tasks[t] EXCEPT !.status = "Paused"]
                ELSE tasks'[t] = tasks[t]
          /\ marked' = Cardinality({t \in 1..Len(tasks) :
                                       tasks'[t] # tasks[t]})
          /\ \A t \in 1..Len(tasks') :
                tasks'[t].status \notin {"Preparing", "Downloading"} ]_vars

\* the task was started or resumed in this process, was paused, and its
\* worker has left through the DownloadCancelled handler
PausedInThisProcess(t) ==
    /\ up
    /\ t \in 1..Len(tasks)
    /\ t \in active_tasks
    /\ wpos[t] = "none"
    /\ tasks[t].status = "Paused"

\* C29: a task paused with pause_task while it was running has status
\* Paused once its worker has observed the cancellation, and
\* resume_download for its id is then accepted in the same process.
PausedTaskResumable ==
    \A t \in TaskIds : PausedInThisProcess(t) => ENABLED ResumeDownload(t)

====
